---- MODULE Spec2Model ----
(***************************************************************************)
(* A model of the sht-colour library: conversion between RGB channel       *)
(* ratios and SHT colour codes, the SHT validator, the duodecimal parser.  *)
(*                                                                         *)
(* The library is generic over an unsigned integer type T.  The model      *)
(* carries T as a record B = [bits, release]: bits is the width of T       *)
(* (8 for u8, 16 for u16, 0 for an unbounded type such as BigUint) and     *)
(* release says whether the build wraps on an unchecked overflow (the      *)
(* release profile) or panics on it (the debug profile).                   *)
(*                                                                         *)
(* An integer result below zero stands for a panic of the process; a       *)
(* ratio is a pair <<numer, denom>> with denom > 0, <<code, 0>> with a     *)
(* negative code is a panic and <<0, 0>> is the None of a checked          *)
(* operation.                                                              *)
(***************************************************************************)
EXTENDS Integers, Sequences, FiniteSets, TLC

VARIABLES release, op, arg, ret

vars == <<release, op, arg, ret>>

-----------------------------------------------------------------------------
(* Panics.                                                                 *)

\* .expect("Overflow calculating denominator")
PanicOverflow == 0 - 1
\* "attempt to multiply/add/subtract with overflow" (debug profile)
PanicArith == 0 - 2
\* "attempt to divide by zero" / Ratio::new "denominator == 0"
PanicDivZero == 0 - 3
\* .expect("RGB to SHT should only create valid codes!")
PanicInvalid == 0 - 4

NoneRatio == <<0, 0>>

IsRatio(r) == r[2] > 0

IsPanic(r) == r[2] = 0 /\ r[1] < 0

Zero == <<0, 1>>

One == <<1, 1>>

-----------------------------------------------------------------------------
(* The integer type T.                                                     *)

\* let name = value; body: the value is computed once
Let(value, body(_)) == body(value)

Modulus(B) == 2 ^ B.bits

MaxValue(B) == Modulus(B) - 1

MulOverflows(B, a, b) == B.bits # 0 /\ b # 0 /\ a > MaxValue(B) \div b

AddOverflows(B, a, b) == B.bits # 0 /\ a > MaxValue(B) - b

\* (a * b) mod 2^bits without leaving the range of the checker's integers
WrapMul(B, a, b) ==
    LET M == Modulus(B)
    IN  (((a * (b \div 256)) % M) * 256 + a * (b % 256)) % M

\* T::mul, unchecked
mul(B, a, b) ==
    IF a < 0 THEN a
    ELSE IF b < 0 THEN b
    ELSE IF ~MulOverflows(B, a, b) THEN a * b
    ELSE IF B.release THEN WrapMul(B, a, b)
    ELSE PanicArith

\* T::add, unchecked
add(B, a, b) ==
    IF a < 0 THEN a
    ELSE IF b < 0 THEN b
    ELSE IF ~AddOverflows(B, a, b) THEN a + b
    ELSE IF B.release THEN (a + b) % Modulus(B)
    ELSE PanicArith

\* T::sub, unchecked, T unsigned
sub(B, a, b) ==
    IF a < 0 THEN a
    ELSE IF b < 0 THEN b
    ELSE IF a >= b THEN a - b
    ELSE IF B.release /\ B.bits # 0 THEN a - b + Modulus(B)
    ELSE PanicArith

\* T::div
div(a, b) ==
    IF a < 0 THEN a
    ELSE IF b < 0 THEN b
    ELSE IF b = 0 THEN PanicDivZero
    ELSE a \div b

RECURSIVE gcd(_, _)
gcd(a, b) == IF b = 0 THEN a ELSE gcd(b, a % b)

\* num::checked_pow: None (here -9) exactly when base^exp is not representable
NoneInt == 0 - 9

RECURSIVE checked_pow(_, _, _)
checked_pow(B, base, exp) ==
    IF exp = 0 THEN 1
    ELSE LET p == checked_pow(B, base, exp - 1)
         IN  IF p < 0 THEN p
             ELSE IF MulOverflows(B, p, base) THEN NoneInt
             ELSE p * base

-----------------------------------------------------------------------------
(* num::rational::Ratio<T>.                                                *)

\* Ratio::new: panics on a zero denominator, reduces otherwise
RatioNew(n, d) ==
    IF n < 0 THEN <<n, 0>>
    ELSE IF d < 0 THEN <<d, 0>>
    ELSE IF d = 0 THEN <<PanicDivZero, 0>>
    ELSE IF n = 0 THEN <<0, 1>>
    ELSE LET g == gcd(n, d) IN <<n \div g, d \div g>>

\* Integer::lcm: self * (other / gcd)
lcm(B, a, b) == mul(B, a, b \div gcd(a, b))

\* Ratio + Ratio
RAdd(B, a, b) ==
    IF ~IsRatio(a) THEN a
    ELSE IF ~IsRatio(b) THEN b
    ELSE IF a[2] = b[2] THEN RatioNew(add(B, a[1], b[1]), b[2])
    ELSE LET l == lcm(B, a[2], b[2])
             lhs_numer == mul(B, a[1], div(l, a[2]))
             rhs_numer == mul(B, b[1], div(l, b[2]))
         IN  RatioNew(add(B, lhs_numer, rhs_numer), l)

\* Ratio - Ratio
RSub(B, a, b) ==
    IF ~IsRatio(a) THEN a
    ELSE IF ~IsRatio(b) THEN b
    ELSE IF a[2] = b[2] THEN RatioNew(sub(B, a[1], b[1]), b[2])
    ELSE LET l == lcm(B, a[2], b[2])
             lhs_numer == mul(B, a[1], div(l, a[2]))
             rhs_numer == mul(B, b[1], div(l, b[2]))
         IN  RatioNew(sub(B, lhs_numer, rhs_numer), l)

\* Ratio * Ratio
RMul(B, a, b) ==
    IF ~IsRatio(a) THEN a
    ELSE IF ~IsRatio(b) THEN b
    ELSE LET gcd_ad == gcd(a[1], b[2])
             gcd_bc == gcd(a[2], b[1])
         IN  RatioNew(mul(B, a[1] \div gcd_ad, b[1] \div gcd_bc),
                      mul(B, a[2] \div gcd_bc, b[2] \div gcd_ad))

\* Ratio / Ratio
RDiv(B, a, b) ==
    IF ~IsRatio(a) THEN a
    ELSE IF ~IsRatio(b) THEN b
    ELSE LET gcd_ac == gcd(a[1], b[1])
             gcd_bd == gcd(a[2], b[2])
         IN  RatioNew(mul(B, div(a[1], gcd_ac), b[2] \div gcd_bd),
                      mul(B, a[2] \div gcd_bd, div(b[1], gcd_ac)))

\* Ratio * T
RMulT(B, a, t) ==
    IF ~IsRatio(a) THEN a
    ELSE IF t < 0 THEN <<t, 0>>
    ELSE LET g == gcd(a[2], t)
         IN  RatioNew(mul(B, a[1], t \div g), a[2] \div g)

\* Ratio / T
RDivT(B, a, t) ==
    IF ~IsRatio(a) THEN a
    ELSE IF t < 0 THEN <<t, 0>>
    ELSE LET g == gcd(a[1], t)
         IN  RatioNew(div(a[1], g), mul(B, a[2], div(t, g)))

\* Ratio::trunc
trunc(a) == IF ~IsRatio(a) THEN a ELSE <<a[1] \div a[2], 1>>

\* Ord for Ratio: -1, 0, 1; exact at every width
RECURSIVE RCmp(_, _)
RCmp(a, b) ==
    LET sign(x) == IF x < 0 THEN 0 - 1 ELSE IF x > 0 THEN 1 ELSE 0
    IN  IF a[2] = b[2] THEN sign(a[1] - b[1])
        ELSE IF a[1] = b[1]
             THEN (IF a[1] = 0 THEN 0 ELSE sign(b[2] - a[2]))
        ELSE LET a_int == a[1] \div a[2]
                 a_rem == a[1] % a[2]
                 b_int == b[1] \div b[2]
                 b_rem == b[1] % b[2]
             IN  IF a_int # b_int THEN sign(a_int - b_int)
                 ELSE IF a_rem = 0 /\ b_rem = 0 THEN 0
                 ELSE IF a_rem = 0 THEN 0 - 1
                 ELSE IF b_rem = 0 THEN 1
                 ELSE RCmp(<<b[2], b_rem>>, <<a[2], a_rem>>)

RLess(a, b) == RCmp(a, b) < 0

RGreater(a, b) == RCmp(a, b) > 0

\* Ratio::checked_div: None when a product overflows or rhs is zero
checked_div(B, a, b) ==
    IF b[1] = 0 THEN NoneRatio
    ELSE LET gcd_ac == gcd(a[1], b[1])
             gcd_bd == gcd(a[2], b[2])
             n1 == a[1] \div gcd_ac
             n2 == b[2] \div gcd_bd
             d1 == a[2] \div gcd_bd
             d2 == b[1] \div gcd_ac
         IN  IF MulOverflows(B, n1, n2) \/ MulOverflows(B, d1, d2)
             THEN NoneRatio
             ELSE RatioNew(n1 * n2, d1 * d2)

\* Ratio::checked_add: None when the common denominator or a numerator overflows
checked_add(B, a, b) ==
    LET g == gcd(a[2], b[2])
        l == (a[2] \div g) * b[2]
    IN  IF MulOverflows(B, a[2] \div g, b[2]) THEN NoneRatio
        ELSE IF MulOverflows(B, l \div a[2], a[1]) THEN NoneRatio
        ELSE IF MulOverflows(B, l \div b[2], b[1]) THEN NoneRatio
        ELSE IF AddOverflows(B, (l \div a[2]) * a[1], (l \div b[2]) * b[1])
             THEN NoneRatio
        ELSE RatioNew((l \div a[2]) * a[1] + (l \div b[2]) * b[1], l)

-----------------------------------------------------------------------------
(* lib.rs: round_denominator.                                              *)

\* wrapping exponentiation: what an unchecked pow would return
RECURSIVE wrapping_pow(_, _, _)
wrapping_pow(B, base, exp) ==
    IF exp = 0 THEN 1
    ELSE LET p == wrapping_pow(B, base, exp - 1)
         IN  IF MulOverflows(B, p, base) THEN WrapMul(B, p, base) ELSE p * base

\* new_denominator with {integer}::wrapping_pow in place of checked_pow
new_denominator_wrapping(B, base, exponent, negative_offset) ==
    sub(B, wrapping_pow(B, base, exponent), negative_offset)

\* new_denominator that forgets the offset: base^exponent itself
new_denominator_no_offset(B, base, exponent, negative_offset) ==
    LET p == checked_pow(B, base, exponent)
    IN  IF p = NoneInt THEN PanicOverflow ELSE p

\* checked_pow(base, exponent).expect("Overflow calculating denominator")
\*     - negative_offset
new_denominator(B, base, exponent, negative_offset) ==
    LET p == checked_pow(B, base, exponent)
    IN  IF p = NoneInt THEN PanicOverflow ELSE sub(B, p, negative_offset)

\* round_denominator that rounds down: the half is not added
round_denominator_floor(B, ratio_on_unit_interval, base, exponent, negative_offset) ==
    LET den == new_denominator(B, base, exponent, negative_offset)
    IN  RDivT(B, trunc(RMulT(B, ratio_on_unit_interval, den)), den)

round_denominator(B, ratio_on_unit_interval, base, exponent, negative_offset) ==
    LET half == RatioNew(1, 2)
        den == new_denominator(B, base, exponent, negative_offset)
    IN  RDivT(B, trunc(RAdd(B, RMulT(B, ratio_on_unit_interval, den), half)), den)

-----------------------------------------------------------------------------
(* sht/mod.rs: the SHT data model and its validator.                       *)

ColourChannel == {"Red", "Green", "Blue"}

SecondaryColour == {"Cyan", "Yellow", "Magenta"}

\* Option<(ColourChannel, Ratio<T>)>: None is <<>>, Some((d, b)) is <<d, b>>
NoDirection == <<>>

OneBrightestChannel(primary, direction_blend) ==
    [kind |-> "OneBrightestChannel", primary |-> primary,
     direction_blend |-> direction_blend, secondary |-> "-"]

TwoBrightestChannels(secondary) ==
    [kind |-> "TwoBrightestChannels", primary |-> "-",
     direction_blend |-> NoDirection, secondary |-> secondary]

ThreeBrightestChannels ==
    [kind |-> "ThreeBrightestChannels", primary |-> "-",
     direction_blend |-> NoDirection, secondary |-> "-"]

SHT(channel_ratios, shade, tint) ==
    [channel_ratios |-> channel_ratios, shade |-> shade, tint |-> tint]

is_zero(r) == r[1] = 0

is_one(r) == r[1] = r[2]

\* errors.push(e) when cond holds
PushIf(cond, e) == IF cond THEN <<e>> ELSE <<>>

\* ChannelErrors with the grey case checked like the two-brightest case
ChannelErrors_grey_checked(self) ==
    LET cr == self.channel_ratios
    IN  IF cr.kind = "OneBrightestChannel"
        THEN PushIf(is_zero(self.shade), "PrimaryShadeZero")
             \o PushIf(is_one(self.tint), "PrimaryTintOne")
             \o (IF cr.direction_blend # NoDirection
                 THEN LET direction == cr.direction_blend[1]
                          blend == cr.direction_blend[2]
                      IN  PushIf(direction = cr.primary, "DirectionEqualsPrimary")
                          \o PushIf(is_zero(blend), "BlendZero")
                          \o PushIf(is_one(blend), "BlendOne")
                          \o PushIf(RGreater(blend, One), "ValueOutOfBounds")
                 ELSE <<>>)
        ELSE PushIf(is_zero(self.shade), "SecondaryShadeZero")
             \o PushIf(is_one(self.tint), "SecondaryTintOne")

\* the errors of the match on channel_ratios, in push order
ChannelErrors(self) ==
    LET cr == self.channel_ratios
    IN  IF cr.kind = "OneBrightestChannel"
        THEN PushIf(is_zero(self.shade), "PrimaryShadeZero")
             \o PushIf(is_one(self.tint), "PrimaryTintOne")
             \o (IF cr.direction_blend # NoDirection
                 THEN LET direction == cr.direction_blend[1]
                          blend == cr.direction_blend[2]
                      IN  PushIf(direction = cr.primary, "DirectionEqualsPrimary")
                          \o PushIf(is_zero(blend), "BlendZero")
                          \o PushIf(is_one(blend), "BlendOne")
                          \o PushIf(RGreater(blend, One), "ValueOutOfBounds")
                 ELSE <<>>)
        ELSE IF cr.kind = "TwoBrightestChannels"
        THEN PushIf(is_zero(self.shade), "SecondaryShadeZero")
             \o PushIf(is_one(self.tint), "SecondaryTintOne")
        ELSE <<>>

\* Result<SHT, Vec<SHTValueError>>
Ok(value) == [ok |-> TRUE, value |-> value, errors |-> <<>>]

Err(value, errors) == [ok |-> FALSE, value |-> value, errors |-> errors]

\* normal returning at the first error instead of collecting all of them
normal_fail_fast(self) ==
    LET errors == ChannelErrors(self)
                  \o PushIf(RGreater(self.tint, One), "ValueOutOfBounds")
                  \o PushIf(RGreater(self.shade, One), "ValueOutOfBounds")
    IN  IF errors = <<>> THEN [ok |-> TRUE, value |-> self, errors |-> <<>>]
        ELSE [ok |-> FALSE, value |-> self, errors |-> <<Head(errors)>>]

\* SHT::normal
normal(self) ==
    LET errors == ChannelErrors(self)
                  \o PushIf(RGreater(self.tint, One), "ValueOutOfBounds")
                  \o PushIf(RGreater(self.shade, One), "ValueOutOfBounds")
    IN  IF errors = <<>> THEN Ok(self) ELSE Err(self, errors)

\* SHT::new
SHT_new(channel_ratios, shade, tint) == normal(SHT(channel_ratios, shade, tint))

-----------------------------------------------------------------------------
(* sht/parser.rs: the duodecimal text grammar.  A text is a sequence of    *)
(* one-character strings.  A parser returns [st, rest, value]: st is "ok"  *)
(* (value parsed, rest left), "err" (nom's recoverable Err::Error) or      *)
(* "panic".                                                                *)

POk(rest, value) == [st |-> "ok", rest |-> rest, value |-> value]

PErr(input) == [st |-> "err", rest |-> input, value |-> <<>>]

PPanic(code) == [st |-> "panic", rest |-> <<>>, value |-> code]

Tail_(input) == SubSeq(input, 2, Len(input))

\* tag_no_case compares without regard to ASCII case
Lower(c) ==
    CASE c = "R" -> "r" [] c = "G" -> "g" [] c = "B" -> "b"
      [] c = "C" -> "c" [] c = "Y" -> "y" [] c = "M" -> "m"
      [] c = "W" -> "w" [] c = "X" -> "x" [] c = "E" -> "e"
      [] OTHER -> c

DecimalDigits == <<"0", "1", "2", "3", "4", "5", "6", "7", "8", "9">>

IsDecimalDigit(c) == \E i \in 1..10 : DecimalDigits[i] = c

\* duodecimal_digit: one character matching tag_no_case("X"), tag_no_case("E")
\* or digit1
duodecimal_digit(input) ==
    IF input = <<>> THEN PErr(input)
    ELSE LET first == Head(input)
         IN  IF Lower(first) = "x" \/ Lower(first) = "e" \/ IsDecimalDigit(first)
             THEN POk(Tail_(input), first)
             ELSE PErr(input)

\* number_from_digit: "E" is 11, "X" is 10, any other character goes through
\* str::parse::<u8>, which fails on "x" and "e"
number_from_digit(input) ==
    Let(duodecimal_digit(input), LAMBDA d :
        IF d.st # "ok" THEN PErr(input)
        ELSE IF d.value = "E" THEN POk(d.rest, 11)
        ELSE IF d.value = "X" THEN POk(d.rest, 10)
        ELSE IF IsDecimalDigit(d.value)
             THEN POk(d.rest, (CHOOSE i \in 1..10 : DecimalDigits[i] = d.value) - 1)
        ELSE PErr(input))

\* secondary_colour
secondary_colour(input) ==
    IF input = <<>> THEN PErr(input)
    ELSE CASE Lower(Head(input)) = "c" -> POk(Tail_(input), "Cyan")
           [] Lower(Head(input)) = "y" -> POk(Tail_(input), "Yellow")
           [] Lower(Head(input)) = "m" -> POk(Tail_(input), "Magenta")
           [] OTHER -> PErr(input)

\* primary_colour
primary_colour(input) ==
    IF input = <<>> THEN PErr(input)
    ELSE CASE Lower(Head(input)) = "r" -> POk(Tail_(input), "Red")
           [] Lower(Head(input)) = "g" -> POk(Tail_(input), "Green")
           [] Lower(Head(input)) = "b" -> POk(Tail_(input), "Blue")
           [] OTHER -> PErr(input)

\* the loop of try_shift_fraction: number.checked_div(base), count times,
\* None as soon as one division fails.  The count iterations are evaluated
\* as two halves one after the other, which keeps the evaluation shallow for
\* the 255 iterations a u8 index allows.
RECURSIVE shift_loop(_, _, _, _)
shift_loop(B, number, base, count) ==
    IF count = 0 THEN number
    ELSE IF count = 1 THEN checked_div(B, number, <<base, 1>>)
    ELSE Let(shift_loop(B, number, base, count \div 2), LAMBDA half :
             IF half = NoneRatio THEN NoneRatio
             ELSE shift_loop(B, half, base, count - count \div 2))

\* the largest u8, the type of the digit count
MaxIndex == 255

\* try_shift_fraction: None (<<>>) or <<new_index, digit / base^new_index>>
try_shift_fraction(B, base, digit, index) ==
    IF index + 1 > MaxIndex THEN <<>>
    ELSE Let(shift_loop(B, <<digit, 1>>, base, index + 1), LAMBDA number :
             IF number = NoneRatio THEN <<>> ELSE <<index + 1, number>>)

\* fold_digit that drops the digits past the overflow without recording
\* whether to round up
fold_digit_truncating(B, acc, digit) ==
    Let(try_shift_fraction(B, 12, digit, acc[1]), LAMBDA shifted :
    Let(IF shifted = <<>> THEN NoneRatio ELSE checked_add(B, acc[2], shifted[2]),
        LAMBDA sum :
        IF shifted # <<>> /\ sum # NoneRatio
        THEN <<shifted[1], sum, "None">>
        ELSE acc))

\* the fold closure of quantity on the accumulator <<length, number, round_up>>;
\* round_up is "None", "Some(true)" or "Some(false)"
fold_digit(B, acc, digit) ==
    LET length == acc[1]
        number == acc[2]
        round_up == acc[3]
    IN  Let(try_shift_fraction(B, 12, digit, length), LAMBDA shifted :
        Let(IF shifted = <<>> THEN NoneRatio ELSE checked_add(B, number, shifted[2]),
            LAMBDA sum :
            IF shifted # <<>> /\ sum # NoneRatio
            THEN <<shifted[1], sum, "None">>
            ELSE <<length, number,
                   IF round_up # "None" THEN round_up
                   ELSE IF digit >= 12 \div 2 THEN "Some(true)" ELSE "Some(false)">>))

\* the number of leading characters of input that number_from_digit accepts
digit_count(input) ==
    CHOOSE n \in 0..Len(input) :
        /\ \A i \in 1..n : number_from_digit(<<input[i]>>).st = "ok"
        /\ n < Len(input) => number_from_digit(<<input[n + 1]>>).st # "ok"

\* the fold closure applied to the digits input[from..to] in order, evaluated
\* as two halves one after the other; the digit count of the accumulator is a
\* u8 at every point
RECURSIVE fold_range(_, _, _, _, _)
fold_range(B, acc, input, from, to) ==
    IF from > to THEN acc
    ELSE IF from = to
    THEN fold_digit(B, acc, number_from_digit(<<input[from]>>).value)
    ELSE Let(fold_range(B, acc, input, from, (from + to) \div 2), LAMBDA half :
             IF half[1] \in 0..MaxIndex
             THEN fold_range(B, half, input, (from + to) \div 2 + 1, to)
             ELSE half)

\* fold_many1(number_from_digit, init, fold_digit): the fold over the leading
\* digits, and the input that they leave
fold_many(B, acc, input) ==
    Let(digit_count(input), LAMBDA n :
        POk(SubSeq(input, n + 1, Len(input)), fold_range(B, acc, input, 1, n)))

\* quantity whose correction is one unit of the first digit, 1/12
quantity_coarse_correction(B, input) ==
    IF number_from_digit(input).st # "ok" THEN PErr(input)
    ELSE Let(fold_many(B, <<0, <<0, 1>>, "None">>, input), LAMBDA folded :
         LET number == folded.value[2]
             round_up == folded.value[3]
         IN  IF round_up # "Some(true)" THEN POk(folded.rest, number)
             ELSE Let(RAdd(B, number, <<1, 12>>), LAMBDA result :
                      IF IsRatio(result) THEN POk(folded.rest, result)
                      ELSE PPanic(result[1])))

\* quantity
quantity(B, input) ==
    IF number_from_digit(input).st # "ok" THEN PErr(input)
    ELSE Let(fold_many(B, <<0, <<0, 1>>, "None">>, input), LAMBDA folded :
         LET length == folded.value[1]
             number == folded.value[2]
             round_up == folded.value[3]
         IN  IF round_up # "Some(true)" THEN POk(folded.rest, number)
             ELSE IF length = 0 /\ ~B.release THEN PPanic(PanicArith)
             ELSE Let(try_shift_fraction(B, 12, 1,
                          IF length = 0 THEN MaxIndex ELSE length - 1),
                      LAMBDA shifted :
                  Let(RAdd(B, number, IF shifted = <<>> THEN <<0, 1>> ELSE shifted[2]),
                      LAMBDA result :
                      IF IsRatio(result) THEN POk(folded.rest, result)
                      ELSE PPanic(result[1]))))

\* direction_blend: pair(quantity, primary_colour), returned as (direction, blend)
direction_blend(B, input) ==
    Let(quantity(B, input), LAMBDA blend :
        IF blend.st # "ok" THEN blend
        ELSE Let(primary_colour(blend.rest), LAMBDA direction :
                 IF direction.st # "ok" THEN PErr(input)
                 ELSE POk(direction.rest, <<direction.value, blend.value>>)))

\* channel_ratios that never reads a direction_blend after the primary
channel_ratios_no_direction(B, input) ==
    Let(primary_colour(input), LAMBDA primary :
        IF primary.st = "ok"
        THEN POk(primary.rest, OneBrightestChannel(primary.value, NoDirection))
        ELSE Let(secondary_colour(input), LAMBDA secondary :
                 IF secondary.st = "ok"
                 THEN POk(secondary.rest, TwoBrightestChannels(secondary.value))
                 ELSE PErr(input)))

\* channel_ratios: primary with an optional direction_blend, else secondary
channel_ratios(B, input) ==
    Let(primary_colour(input), LAMBDA primary :
        IF primary.st = "ok"
        THEN Let(direction_blend(B, primary.rest), LAMBDA db :
                 IF db.st = "panic" THEN db
                 ELSE IF db.st = "ok"
                 THEN POk(db.rest, OneBrightestChannel(primary.value, db.value))
                 ELSE POk(primary.rest, OneBrightestChannel(primary.value, NoDirection)))
        ELSE Let(secondary_colour(input), LAMBDA secondary :
                 IF secondary.st = "ok"
                 THEN POk(secondary.rest, TwoBrightestChannels(secondary.value))
                 ELSE PErr(input)))

\* Option<Ratio<T>>: None is <<>>, Some(r) is <<r>>
Some(r) == <<r>>

\* SHTParts: (Option shade, ChannelRatios, Option tint)
Parts(shade, cr, tint) == [shade |-> shade, channel_ratios |-> cr, tint |-> tint]

\* the first alternative of sht_data: tuple((opt(shade), channel_ratios, opt(tint())))
sht_data_full(B, input) ==
    Let(quantity(B, input), LAMBDA shade :
    Let(channel_ratios(B, IF shade.st = "ok" THEN shade.rest ELSE input), LAMBDA cr :
    Let(quantity(B, cr.rest), LAMBDA tint :
        LET has_tint == tint.st = "ok" /\ ~is_zero(tint.value)
        IN  IF shade.st = "panic" THEN shade
            ELSE IF cr.st # "ok" THEN cr
            ELSE IF tint.st = "panic" THEN tint
            ELSE POk(IF has_tint THEN tint.rest ELSE cr.rest,
                     Parts(IF shade.st = "ok" THEN Some(shade.value) ELSE <<>>,
                           cr.value,
                           IF has_tint THEN Some(tint.value) ELSE <<>>)))))

\* sht_data reading a lone quantity as a shade whatever its value
sht_data_digits_as_shade(B, input) ==
    Let(sht_data_full(B, input), LAMBDA full :
        IF full.st # "err" THEN full
        ELSE Let(quantity(B, input), LAMBDA number :
             IF number.st = "panic" THEN number
             ELSE IF number.st = "ok"
             THEN POk(number.rest, Parts(Some(number.value), ThreeBrightestChannels, <<>>))
             ELSE IF input # <<>> /\ Lower(Head(input)) = "w"
             THEN POk(Tail_(input), Parts(<<>>, ThreeBrightestChannels, Some(One)))
             ELSE PErr(input)))

\* sht_data whose W alternative carries a shade of 0
sht_data_white_shade_zero(B, input) ==
    Let(sht_data_full(B, input), LAMBDA full :
        IF full.st # "err" THEN full
        ELSE Let(quantity(B, input), LAMBDA number :
             IF number.st = "panic" THEN number
             ELSE IF number.st = "ok" /\ is_zero(number.value)
             THEN POk(number.rest, Parts(Some(number.value), ThreeBrightestChannels, <<>>))
             ELSE IF number.st = "ok"
             THEN POk(number.rest, Parts(<<>>, ThreeBrightestChannels, Some(number.value)))
             ELSE IF input # <<>> /\ Lower(Head(input)) = "w"
             THEN POk(Tail_(input), Parts(Some(Zero), ThreeBrightestChannels, Some(One)))
             ELSE PErr(input)))

\* sht_data: alt of the four alternatives, in order
sht_data(B, input) ==
    Let(sht_data_full(B, input), LAMBDA full :
        IF full.st # "err" THEN full
        ELSE Let(quantity(B, input), LAMBDA number :
             IF number.st = "panic" THEN number
             ELSE IF number.st = "ok" /\ is_zero(number.value)
             THEN POk(number.rest, Parts(Some(number.value), ThreeBrightestChannels, <<>>))
             ELSE IF number.st = "ok"
             THEN POk(number.rest, Parts(<<>>, ThreeBrightestChannels, Some(number.value)))
             ELSE IF input # <<>> /\ Lower(Head(input)) = "w"
             THEN POk(Tail_(input), Parts(<<>>, ThreeBrightestChannels, Some(One)))
             ELSE PErr(input)))

\* Result<SHT, ParsePropertyError>, or a panic
ParseOk(value) == [kind |-> "Ok", value |-> value, errors |-> <<>>, text |-> <<>>]

ValueErrors(errors) ==
    [kind |-> "ValueErrors", value |-> <<>>, errors |-> errors, text |-> <<>>]

ParseFailure(text) ==
    [kind |-> "ParseFailure", value |-> <<>>, errors |-> <<>>, text |-> text]

InputRemaining(text) ==
    [kind |-> "InputRemaining", value |-> <<>>, errors |-> <<>>, text |-> text]

ParsePanic(code) == [kind |-> "Panic", value |-> code, errors |-> <<>>, text |-> <<>>]

\* parse_sht reporting the whole input, not the remainder, as InputRemaining
parse_sht_whole_input(B, input) ==
    Let(sht_data(B, input), LAMBDA data :
        IF data.st = "panic" THEN ParsePanic(data.value)
        ELSE IF data.st = "err" THEN ParseFailure(data.rest)
        ELSE IF data.rest # <<>> THEN InputRemaining(input)
        ELSE Let(SHT_new(data.value.channel_ratios,
                         IF data.value.shade = <<>> THEN One
                         ELSE data.value.shade[1],
                         IF data.value.tint = <<>> THEN Zero
                         ELSE data.value.tint[1]),
                 LAMBDA made :
                 IF made.ok THEN ParseOk(made.value) ELSE ValueErrors(made.errors)))

\* parse_sht building the value from the parsed parts without SHT::new
parse_sht_unvalidated(B, input) ==
    Let(sht_data(B, input), LAMBDA data :
        IF data.st = "panic" THEN ParsePanic(data.value)
        ELSE IF data.st = "err" THEN ParseFailure(data.rest)
        ELSE IF data.rest # <<>> THEN InputRemaining(data.rest)
        ELSE ParseOk(SHT(data.value.channel_ratios,
                         IF data.value.shade = <<>> THEN One
                         ELSE data.value.shade[1],
                         IF data.value.tint = <<>> THEN Zero
                         ELSE data.value.tint[1])))

\* parse_sht
parse_sht(B, input) ==
    Let(sht_data(B, input), LAMBDA data :
        IF data.st = "panic" THEN ParsePanic(data.value)
        ELSE IF data.st = "err" THEN ParseFailure(data.rest)
        ELSE IF data.rest # <<>> THEN InputRemaining(data.rest)
        ELSE Let(SHT_new(data.value.channel_ratios,
                         IF data.value.shade = <<>> THEN One
                         ELSE data.value.shade[1],
                         IF data.value.tint = <<>> THEN Zero
                         ELSE data.value.tint[1]),
                 LAMBDA made :
                 IF made.ok THEN ParseOk(made.value) ELSE ValueErrors(made.errors)))

-----------------------------------------------------------------------------
(* lib.rs: the conversions.  A conversion returns [panic, value]: panic is *)
(* 0 and value the result, or panic is the code of the panic.              *)

Returned(value) == [panic |-> 0, value |-> value]

Panicked(code) == [panic |-> code, value |-> <<>>]

\* the outcome of a call that evaluates to a Ratio<T>
Outcome(ratio) ==
    IF IsRatio(ratio) THEN Returned([ratio |-> ratio]) ELSE Panicked(ratio[1])

\* the first panic among ratios evaluated in this order, 0 when there is none
RECURSIVE FirstPanic(_)
FirstPanic(ratios) ==
    IF ratios = <<>> THEN 0
    ELSE IF ~IsRatio(Head(ratios)) THEN Head(ratios)[1]
    ELSE FirstPanic(Tail(ratios))

RGB(r, g, b) == [r |-> r, g |-> g, b |-> b]

\* sht_to_rgb whose max is tint + shade, not scaled by 1 - tint
sht_to_rgb_unscaled(B, input, precision) ==
    LET channel_ratios_ == input.channel_ratios
        shade == input.shade
        tint == input.tint
        max == RAdd(B, tint, shade)
        min == tint
        kind == channel_ratios_.kind
        has_direction == kind = "OneBrightestChannel"
                         /\ channel_ratios_.direction_blend # NoDirection
        direction == IF has_direction THEN channel_ratios_.direction_blend[1] ELSE "-"
        centremost_channel ==
            IF has_direction
            THEN RAdd(B, min, RMul(B, channel_ratios_.direction_blend[2], RSub(B, max, min)))
            ELSE min
        secondary == channel_ratios_.secondary
        primary == channel_ratios_.primary
        Channel(name, in_secondary) ==
            IF kind = "ThreeBrightestChannels" THEN min
            ELSE IF kind = "TwoBrightestChannels"
            THEN (IF secondary \in in_secondary THEN max ELSE min)
            ELSE IF primary = name THEN max
            ELSE IF direction = name THEN centremost_channel
            ELSE min
        red == Channel("Red", {"Yellow", "Magenta"})
        green == Channel("Green", {"Cyan", "Yellow"})
        blue == Channel("Blue", {"Cyan", "Magenta"})
        rounded == <<round_denominator(B, red, 16, precision, 1),
                     round_denominator(B, green, 16, precision, 1),
                     round_denominator(B, blue, 16, precision, 1)>>
        panic == FirstPanic(<<max, centremost_channel>> \o rounded)
    IN  IF panic # 0 THEN Panicked(panic)
        ELSE Returned(RGB(rounded[1], rounded[2], rounded[3]))

\* sht_to_rgb
sht_to_rgb(B, input, precision) ==
    LET channel_ratios_ == input.channel_ratios
        shade == input.shade
        tint == input.tint
        max == RAdd(B, tint, RMul(B, shade, RSub(B, One, tint)))
        min == tint
        kind == channel_ratios_.kind
        has_direction == kind = "OneBrightestChannel"
                         /\ channel_ratios_.direction_blend # NoDirection
        direction == IF has_direction THEN channel_ratios_.direction_blend[1] ELSE "-"
        centremost_channel ==
            IF has_direction
            THEN RAdd(B, min, RMul(B, channel_ratios_.direction_blend[2], RSub(B, max, min)))
            ELSE min
        secondary == channel_ratios_.secondary
        primary == channel_ratios_.primary
        Channel(name, in_secondary) ==
            IF kind = "ThreeBrightestChannels" THEN min
            ELSE IF kind = "TwoBrightestChannels"
            THEN (IF secondary \in in_secondary THEN max ELSE min)
            ELSE IF primary = name THEN max
            ELSE IF direction = name THEN centremost_channel
            ELSE min
        red == Channel("Red", {"Yellow", "Magenta"})
        green == Channel("Green", {"Cyan", "Yellow"})
        blue == Channel("Blue", {"Cyan", "Magenta"})
        rounded == <<round_denominator(B, red, 16, precision, 1),
                     round_denominator(B, green, 16, precision, 1),
                     round_denominator(B, blue, 16, precision, 1)>>
        panic == FirstPanic(<<max, centremost_channel>> \o rounded)
    IN  IF panic # 0 THEN Panicked(panic)
        ELSE Returned(RGB(rounded[1], rounded[2], rounded[3]))

\* char_to_primary
char_to_primary(c) ==
    CASE c = "r" -> "Red" [] c = "g" -> "Green" [] c = "b" -> "Blue"

\* chars_to_secondary with Yellow and Magenta exchanged
chars_to_secondary_exchanged(a, b) ==
    CASE {a, b} = {"g", "b"} -> "Cyan"
      [] {a, b} = {"r", "g"} -> "Magenta"
      [] {a, b} = {"r", "b"} -> "Yellow"

\* chars_to_secondary
chars_to_secondary(a, b) ==
    CASE {a, b} = {"g", "b"} -> "Cyan"
      [] {a, b} = {"r", "g"} -> "Yellow"
      [] {a, b} = {"r", "b"} -> "Magenta"

\* the order of (Ratio, char) tuples that channels.sort() uses
CharRank(c) == CASE c = "b" -> 1 [] c = "g" -> 2 [] c = "r" -> 3

ChannelLeq(x, y) ==
    \/ RLess(x[1], y[1])
    \/ (RCmp(x[1], y[1]) = 0 /\ CharRank(x[2]) <= CharRank(y[2]))

\* a sort that orders by the channel letter alone: blue, green, red
sort_by_letter(channels) == <<channels[3], channels[2], channels[1]>>

\* channels.sort()
sort(channels) ==
    CHOOSE s \in {<<channels[i], channels[j], channels[k]>> :
                    i \in 1..3, j \in 1..3, k \in 1..3} :
        /\ {s[1][2], s[2][2], s[3][2]} = {"r", "g", "b"}
        /\ ChannelLeq(s[1], s[2]) /\ ChannelLeq(s[2], s[3])

\* rgb_to_sht whose shade is max - min, not divided by 1 - min
rgb_to_sht_parts_unscaled(B, input, precision) ==
    LET round(ratio) == round_denominator(B, ratio, 12, precision, 0)
        channels == sort(<<<<input.r, "r">>, <<input.g, "g">>, <<input.b, "b">>>>)
        minimum == channels[1][1]
        middle == channels[2][1]
        mid_channel == channels[2][2]
        maximum == channels[3][1]
        max_channel == channels[3][2]
        tint == round(minimum)
        shade == IF is_zero(maximum) THEN Zero
                 ELSE IF RCmp(minimum, maximum) = 0 THEN One
                 ELSE round(RSub(B, maximum, minimum))
        blend == round(RDiv(B, RSub(B, middle, minimum), RSub(B, maximum, minimum)))
        channel_ratios_ ==
            IF RGreater(maximum, middle)
            THEN OneBrightestChannel(
                     char_to_primary(max_channel),
                     IF RGreater(middle, minimum)
                     THEN <<char_to_primary(mid_channel), blend>>
                     ELSE NoDirection)
            ELSE IF RGreater(middle, minimum)
            THEN TwoBrightestChannels(chars_to_secondary(max_channel, mid_channel))
            ELSE ThreeBrightestChannels
    IN  SHT(channel_ratios_, shade, tint)

\* the (channel_ratios, shade, tint) that rgb_to_sht hands to SHT::new, the
\* ratios possibly panics
rgb_to_sht_parts(B, input, precision) ==
    LET round(ratio) == round_denominator(B, ratio, 12, precision, 0)
        channels == sort(<<<<input.r, "r">>, <<input.g, "g">>, <<input.b, "b">>>>)
        minimum == channels[1][1]
        middle == channels[2][1]
        mid_channel == channels[2][2]
        maximum == channels[3][1]
        max_channel == channels[3][2]
        tint == round(minimum)
        shade == IF is_zero(maximum) THEN Zero
                 ELSE IF RCmp(minimum, maximum) = 0 THEN One
                 ELSE round(RDiv(B, RSub(B, maximum, minimum), RSub(B, One, minimum)))
        blend == round(RDiv(B, RSub(B, middle, minimum), RSub(B, maximum, minimum)))
        channel_ratios_ ==
            IF RGreater(maximum, middle)
            THEN OneBrightestChannel(
                     char_to_primary(max_channel),
                     IF RGreater(middle, minimum)
                     THEN <<char_to_primary(mid_channel), blend>>
                     ELSE NoDirection)
            ELSE IF RGreater(middle, minimum)
            THEN TwoBrightestChannels(chars_to_secondary(max_channel, mid_channel))
            ELSE ThreeBrightestChannels
    IN  SHT(channel_ratios_, shade, tint)

\* rgb_to_sht: SHT::new(..).expect("RGB to SHT should only create valid codes!")
rgb_to_sht(B, input, precision) ==
    LET parts == rgb_to_sht_parts(B, input, precision)
        blend == IF parts.channel_ratios.direction_blend # NoDirection
                 THEN parts.channel_ratios.direction_blend[2]
                 ELSE Zero
        panic == FirstPanic(<<parts.tint, parts.shade, blend>>)
        made == SHT_new(parts.channel_ratios, parts.shade, parts.tint)
    IN  IF panic # 0 THEN Panicked(panic)
        ELSE IF made.ok THEN Returned(made.value)
        ELSE Panicked(PanicInvalid)

-----------------------------------------------------------------------------
(* sht/mod.rs: the duodecimal formatter.  Digits are numbers 0 to 12, a      *)
(* string is a sequence of characters.                                     *)

\* round that never carries: the last digit is dropped instead
RECURSIVE round_no_carry(_, _)
round_no_carry(input, round_up) ==
    IF ~round_up \/ input = <<>> THEN input
    ELSE LET last == input[Len(input)]
             rest == SubSeq(input, 1, Len(input) - 1)
         IN  IF last + 1 >= 12 THEN rest ELSE Append(rest, last + 1)

\* round that carries only past 12: an 11 becomes a 12 in place
RECURSIVE round_carry_late(_, _)
round_carry_late(input, round_up) ==
    IF ~round_up THEN input
    ELSE IF input = <<>> THEN <<12>>
    ELSE LET last == input[Len(input)]
             rest == SubSeq(input, 1, Len(input) - 1)
         IN  IF last + 1 > 12 THEN round_carry_late(rest, round_up)
             ELSE Append(rest, last + 1)

\* round: adds one to a base-12 number given as its digits
RECURSIVE round(_, _)
round(input, round_up) ==
    IF round_up
    THEN IF input # <<>>
         THEN LET last == input[Len(input)]
                  rest == SubSeq(input, 1, Len(input) - 1)
                  rounded_last == IF last + 1 > MaxIndex THEN 12 ELSE last + 1
              IN  IF rounded_last >= 12 THEN round(rest, round_up)
                  ELSE Append(rest, rounded_last)
         ELSE <<12>>
    ELSE input

\* digit_characters
digit_characters == <<"0", "1", "2", "3", "4", "5", "6", "7", "8", "9", "X", "E">>

\* digit_character that knows the decimal digits only
digit_character_decimal(c) == IF c < 10 THEN digit_characters[c + 1] ELSE "W"

\* digit_characters.get(usize::from(c)).unwrap_or(&'W')
digit_character(c) == IF c < 12 THEN digit_characters[c + 1] ELSE "W"

\* Ratio::fract
fract(a) == <<a[1] % a[2], a[2]>>

\* Ratio::to_integer
to_integer(a) == a[1] \div a[2]

\* the loop of duodecimal: [panic, digits, round_up] when it ends
RECURSIVE duodecimal_loop(_, _, _, _)
duodecimal_loop(B, input, digits_left, digits) ==
    Let(RMul(B, input, <<12, 1>>), LAMBDA scaled :
        IF ~IsRatio(scaled)
        THEN [panic |-> scaled[1], digits |-> digits, round_up |-> FALSE]
        ELSE LET rest == fract(scaled)
                 round_up == digits_left = 0 /\ RCmp(rest, RatioNew(1, 2)) >= 0
                 integer_part == to_integer(scaled)
                 next_digit == IF integer_part < 12 THEN integer_part ELSE 12
             IN  IF is_zero(rest) \/ digits_left = 0
                 THEN [panic |-> 0, digits |-> Append(digits, next_digit),
                       round_up |-> round_up]
                 ELSE duodecimal_loop(B, rest, digits_left - 1,
                                      Append(digits, next_digit)))

\* duodecimal(input, precision): the string, or a panic
duodecimal(B, input, precision) ==
    IF RCmp(input, One) >= 0 THEN Returned(<<"W">>)
    ELSE IF precision = 0 THEN Returned(<<>>)
    ELSE Let(duodecimal_loop(B, input, precision - 1, <<>>), LAMBDA end :
             IF end.panic # 0 THEN Panicked(end.panic)
             ELSE Let(round(end.digits, end.round_up), LAMBDA rounded :
                      Returned([i \in 1..Len(rounded) |-> digit_character(rounded[i])])))

\* primary_to_str
primary_to_str(primary) ==
    CASE primary = "Red" -> <<"r">> [] primary = "Green" -> <<"g">>
      [] primary = "Blue" -> <<"b">>

\* secondary_to_str
secondary_to_str(secondary) ==
    CASE secondary = "Cyan" -> <<"c">> [] secondary = "Yellow" -> <<"y">>
      [] secondary = "Magenta" -> <<"m">>

\* option.map_or_else(String::new, ratio_to_str): the empty string for None
ratio_to_str(B, option, precision) ==
    IF option = <<>> THEN Returned(<<>>) ELSE duodecimal(B, option[1], precision)

\* fmt that writes the shade and the tint always
fmt_nothing_omitted(B, self, precision_option) ==
    LET precision == IF precision_option = <<>> THEN 2 ELSE precision_option[1]
        cr == self.channel_ratios
        one == cr.kind = "OneBrightestChannel"
        blend == IF one /\ cr.direction_blend # NoDirection
                 THEN <<cr.direction_blend[2]>> ELSE <<>>
    IN  Let(ratio_to_str(B, <<self.shade>>, precision), LAMBDA shade_str :
        Let(ratio_to_str(B, blend, precision), LAMBDA blend_str :
        Let(ratio_to_str(B, <<self.tint>>, precision), LAMBDA tint_str :
            IF shade_str.panic # 0 THEN shade_str
            ELSE IF blend_str.panic # 0 THEN blend_str
            ELSE IF tint_str.panic # 0 THEN tint_str
            ELSE Returned(
                shade_str.value
                \o (IF one THEN primary_to_str(cr.primary) ELSE <<>>)
                \o blend_str.value
                \o (IF blend # <<>> THEN primary_to_str(cr.direction_blend[1]) ELSE <<>>)
                \o (IF cr.kind = "TwoBrightestChannels"
                    THEN secondary_to_str(cr.secondary) ELSE <<>>)
                \o tint_str.value))))

\* <SHT as Display>::fmt; precision_option is formatter.precision(), <<>> for
\* None and <<p>> for Some(p).  The string written, or a panic.
fmt(B, self, precision_option) ==
    LET precision == IF precision_option = <<>> THEN 2 ELSE precision_option[1]
        cr == self.channel_ratios
        tint == IF ~is_zero(self.tint) THEN <<self.tint>> ELSE <<>>
        shade == IF ~is_one(self.shade) THEN <<self.shade>> ELSE <<>>
        one == cr.kind = "OneBrightestChannel"
        primary == IF one THEN <<cr.primary>> ELSE <<>>
        secondary == IF cr.kind = "TwoBrightestChannels" THEN <<cr.secondary>> ELSE <<>>
        direction == IF one /\ cr.direction_blend # NoDirection
                     THEN <<cr.direction_blend[1]>> ELSE <<>>
        blend == IF one /\ cr.direction_blend # NoDirection
                 THEN <<cr.direction_blend[2]>> ELSE <<>>
    IN  Let(ratio_to_str(B, shade, precision), LAMBDA shade_str :
        Let(ratio_to_str(B, blend, precision), LAMBDA blend_str :
        Let(ratio_to_str(B, tint, precision), LAMBDA tint_str :
            IF shade_str.panic # 0 THEN shade_str
            ELSE IF blend_str.panic # 0 THEN blend_str
            ELSE IF tint_str.panic # 0 THEN tint_str
            ELSE Returned(
                shade_str.value
                \o (IF primary = <<>> THEN <<>> ELSE primary_to_str(primary[1]))
                \o blend_str.value
                \o (IF direction = <<>> THEN <<>> ELSE primary_to_str(direction[1]))
                \o (IF secondary = <<>> THEN <<>> ELSE secondary_to_str(secondary[1]))
                \o tint_str.value))))

-----------------------------------------------------------------------------
(* The calls.  A state records one call made to the library: the           *)
(* operation, its arguments and what it returned; Return hands the result  *)
(* to the caller, after which the next call can be made.                   *)

Build(bits) == [bits |-> bits, release |-> release]

Idle == op = "none"

Init ==
    /\ release \in BOOLEAN
    /\ op = "none"
    /\ arg = <<>>
    /\ ret = <<>>

Return ==
    /\ ~Idle
    /\ op' = "none"
    /\ arg' = <<>>
    /\ ret' = <<>>
    /\ UNCHANGED release

\* bounds of the argument sets
MaxDen == 3
MaxExponent == 3

\* every ratio n/d with d <= MaxDen and n <= d + 1: the unit interval and a
\* few values above it
SmallRatios == {RatioNew(n, d) : n \in 0..(MaxDen + 1), d \in 1..MaxDen}

ArgRatios == {r \in SmallRatios : ~RGreater(r, <<2, 1>>)}

UnitRatios == {r \in SmallRatios : ~RGreater(r, One)}

AllChannelRatios ==
    {OneBrightestChannel(p, NoDirection) : p \in ColourChannel}
    \cup {OneBrightestChannel(p, <<d, b>>) :
            p \in ColourChannel, d \in ColourChannel, b \in ArgRatios}
    \cup {TwoBrightestChannels(s) : s \in SecondaryColour}
    \cup {ThreeBrightestChannels}

\* SHT::new(channel_ratios, shade, tint)
NewStep ==
    /\ Idle
    /\ \E cr \in AllChannelRatios, shade \in ArgRatios, tint \in ArgRatios :
           /\ op' = "new"
           /\ arg' = SHT(cr, shade, tint)
           /\ ret' = SHT_new(cr, shade, tint)
           /\ UNCHANGED release

NextNew == NewStep \/ Return

SpecNew == Init /\ [][NextNew]_vars

\* round_denominator::<T>(value, base, exponent, negative_offset)
RoundStep ==
    /\ Idle
    /\ \E bits \in {8, 16}, value \in UnitRatios, base \in {2, 12, 16},
          exponent \in 0..MaxExponent, offset \in {0, 1} :
           /\ op' = "round_denominator"
           /\ arg' = [bits |-> bits, value |-> value, base |-> base,
                      exponent |-> exponent, offset |-> offset]
           /\ ret' = Outcome(round_denominator(Build(bits), value, base, exponent, offset))
           /\ UNCHANGED release

NextRound == RoundStep \/ Return

SpecRound == Init /\ [][NextRound]_vars

\* the precisions given to the conversions: 0 to MaxPrecision digits
MaxPrecision == 3

\* the widths of T the conversions are called at: u8, u16, unbounded
ConvWidths == {8, 16, 0}

\* the channel values given to rgb_to_sht, as two-digit hex levels n/255
ChannelLevels == {0, 1, 64, 128, 170, 191, 254, 255}

Channels == {RatioNew(n, 255) : n \in ChannelLevels}

\* the shades, tints and blends given to sht_to_rgb, in twelfths
ShtLevels == {0, 3, 6, 8, 12}

ShtRatios == {RatioNew(n, 12) : n \in ShtLevels}

\* the SHT values that exist: those SHT::new accepts
ValidShts ==
    LET crs == {OneBrightestChannel(p, NoDirection) : p \in ColourChannel}
               \cup {OneBrightestChannel(p, <<d, b>>) :
                       p \in ColourChannel, d \in ColourChannel, b \in ShtRatios}
               \cup {TwoBrightestChannels(c) : c \in SecondaryColour}
               \cup {ThreeBrightestChannels}
    IN  {t \in {SHT(cr, shade, tint) : cr \in crs, shade \in ShtRatios, tint \in ShtRatios} :
            SHT_new(t.channel_ratios, t.shade, t.tint).ok}

\* rgb_to_sht::<T>(input, precision)
RgbToShtStep ==
    /\ Idle
    /\ \E bits \in ConvWidths, r \in Channels, g \in Channels, b \in Channels,
          precision \in 0..MaxPrecision :
           /\ op' = "rgb_to_sht"
           /\ arg' = [bits |-> bits, input |-> RGB(r, g, b), precision |-> precision]
           /\ ret' = rgb_to_sht(Build(bits), RGB(r, g, b), precision)
           /\ UNCHANGED release

\* sht_to_rgb::<T>(input, precision)
ShtToRgbStep ==
    /\ Idle
    /\ \E bits \in ConvWidths, input \in ValidShts, precision \in 0..MaxPrecision :
           /\ op' = "sht_to_rgb"
           /\ arg' = [bits |-> bits, input |-> input, precision |-> precision]
           /\ ret' = sht_to_rgb(Build(bits), input, precision)
           /\ UNCHANGED release

NextConv == RoundStep \/ RgbToShtStep \/ ShtToRgbStep \/ Return

SpecConv == Init /\ [][NextConv]_vars

\* the precisions given to duodecimal: 0 to MaxFormatPrecision digits
MaxFormatPrecision == 4

\* the denominators of the values given to duodecimal
FormatDenominators == {1, 2, 3, 5, 12, 144}

\* values of [0,1] over those denominators, values with many digits, and
\* values above 1
FormatValues ==
    UNION {{RatioNew(n, d) : n \in 0..d} : d \in FormatDenominators}
    \cup {RatioNew(1885, 3456), RatioNew(1727, 1728), RatioNew(1, 1728),
          RatioNew(3, 2), RatioNew(2, 1)}

\* duodecimal::<T>(value, precision), T wide enough to hold the value
FormatStep ==
    /\ Idle
    /\ \E bits \in ConvWidths, value \in FormatValues,
          precision \in 0..MaxFormatPrecision :
           /\ bits # 0 => (value[1] <= 2 ^ bits - 1 /\ value[2] <= 2 ^ bits - 1)
           /\ op' = "duodecimal"
           /\ arg' = [bits |-> bits, value |-> value, precision |-> precision]
           /\ ret' = duodecimal(Build(bits), value, precision)
           /\ UNCHANGED release

\* the single characters given to quantity
DigitTexts == {<<digit_characters[i]>> : i \in 1..12} \cup {<<"x">>, <<"e">>, <<"W">>, <<"r">>}

\* quantity::<T>(input) on one character: [rest, value] or the failure
DigitStep ==
    /\ Idle
    /\ \E bits \in ConvWidths, input \in DigitTexts :
           /\ op' = "quantity"
           /\ arg' = [bits |-> bits, input |-> input]
           /\ ret' = quantity(Build(bits), input)
           /\ UNCHANGED release

NextFormat == FormatStep \/ DigitStep \/ Return

SpecFormat == Init /\ [][NextFormat]_vars

\* the precisions given to Display: none, or 0 to MaxDisplayPrecision
MaxDisplayPrecision == 2

\* formatter.precision(): None or Some(p)
PrecisionOptions == {<<>>} \cup {<<p>> : p \in 0..MaxDisplayPrecision}

\* shades, tints and blends: twelfths, and values that one or two digits round
DisplayRatios ==
    {RatioNew(0, 1), RatioNew(1, 144), RatioNew(1, 24), RatioNew(1, 4), RatioNew(1, 2),
     RatioNew(2, 3), RatioNew(23, 24), RatioNew(143, 144), RatioNew(1, 1)}

\* the SHT values given to Display: those SHT::new accepts
DisplayShts ==
    LET crs == {OneBrightestChannel(p, NoDirection) : p \in ColourChannel}
               \cup {OneBrightestChannel(p, <<d, b>>) :
                       p \in ColourChannel, d \in ColourChannel, b \in DisplayRatios}
               \cup {TwoBrightestChannels(c) : c \in SecondaryColour}
               \cup {ThreeBrightestChannels}
    IN  {t \in {SHT(cr, shade, tint) :
                    cr \in crs, shade \in DisplayRatios, tint \in DisplayRatios} :
            SHT_new(t.channel_ratios, t.shade, t.tint).ok}

\* format!("{}", self) and format!("{:.p}", self) for an SHT<T>
DisplayStep ==
    /\ Idle
    /\ \E bits \in ConvWidths, self \in DisplayShts, precision \in PrecisionOptions :
           /\ op' = "fmt"
           /\ arg' = [bits |-> bits, self |-> self, precision |-> precision]
           /\ ret' = fmt(Build(bits), self, precision)
           /\ UNCHANGED release

NextDisplay == DisplayStep \/ Return

SpecDisplay == Init /\ [][NextDisplay]_vars

\* the digit vectors given to round hold up to MaxRoundDigits digits
MaxRoundDigits == 5

\* digits (u8): small ones, 10, 11, the marker 12, and values above it
RoundDigits == {0, 1, 10, 11, 12, 13, MaxIndex}

\* the vectors of at most n digits
RECURSIVE DigitVectors(_)
DigitVectors(n) ==
    IF n = 0 THEN {<<>>}
    ELSE LET shorter == DigitVectors(n - 1)
         IN  shorter \cup {Append(v, d) : v \in {x \in shorter : Len(x) = n - 1},
                                          d \in RoundDigits}

\* round(input, round_up)
RoundDigitsStep ==
    /\ Idle
    /\ \E input \in DigitVectors(MaxRoundDigits), round_up \in BOOLEAN :
           /\ op' = "round"
           /\ arg' = [input |-> input, round_up |-> round_up]
           /\ ret' = Returned(round(input, round_up))
           /\ UNCHANGED release

NextDigits == RoundDigitsStep \/ Return

SpecDigits == Init /\ [][NextDigits]_vars

\* the digit strings given to quantity: every string over Digits of 1 to
\* MaxDigits characters
MaxDigits == 5

Digits == {"0", "5", "6", "7", "9", "E"}

RECURSIVE Strings(_, _)
Strings(alphabet, n) ==
    IF n = 0 THEN {<<>>}
    ELSE LET shorter == Strings(alphabet, n - 1)
         IN  shorter \cup {Append(t, c) : t \in {x \in shorter : Len(x) = n - 1},
                                          c \in alphabet}

\* quantity::<T>(input)
QuantityStep ==
    /\ Idle
    /\ \E bits \in {8, 16}, input \in Strings(Digits, MaxDigits) \ {<<>>} :
           /\ op' = "quantity"
           /\ arg' = [bits |-> bits, input |-> input]
           /\ ret' = quantity(Build(bits), input)
           /\ UNCHANGED release

\* digit strings as long as the u8 digit count allows, and longer: zeros
\* (the digit that every width can hold at every position) and an ending
LongStrings ==
    {[i \in 1..n |-> "0"] \o ending :
        n \in {MaxIndex - 1, MaxIndex, MaxIndex + 1},
        ending \in {<<>>, <<"5">>, <<"6">>, <<"E">>}}

\* quantity::<T>(input) on a long digit string
LongQuantityStep ==
    /\ Idle
    /\ \E bits \in {8, 16}, input \in LongStrings :
           /\ op' = "quantity"
           /\ arg' = [bits |-> bits, input |-> input]
           /\ ret' = quantity(Build(bits), input)
           /\ UNCHANGED release

NextQuantity == QuantityStep \/ Return

SpecQuantity == Init /\ [][NextQuantity]_vars

NextLong == QuantityStep \/ LongQuantityStep \/ Return

SpecLong == Init /\ [][NextLong]_vars

\* the texts given to parse_sht: every string over Alphabet of at most
\* MaxText characters
MaxText == 4

Alphabet == {"0", "1", "3", "6", "E", "e", "r", "g", "y", "W", "."}

\* parse_sht::<T>(input)
ParseStep ==
    /\ Idle
    /\ \E bits \in {8}, input \in Strings(Alphabet, MaxText) :
           /\ op' = "parse_sht"
           /\ arg' = [bits |-> bits, input |-> input]
           /\ ret' = parse_sht(Build(bits), input)
           /\ UNCHANGED release

NextParse == ParseStep \/ Return

SpecParse == Init /\ [][NextParse]_vars


-----------------------------------------------------------------------------
(* Properties of SHT::new (specification SpecNew).                         *)

Count(seq, e) == Cardinality({i \in 1..Len(seq) : seq[i] = e})

Has(seq, e) == Count(seq, e) > 0

HasBlend(s) == s.channel_ratios.direction_blend # NoDirection

BlendOf(s) == s.channel_ratios.direction_blend[2]

DirectionOf(s) == s.channel_ratios.direction_blend[1]

IsOneBrightest(s) == s.channel_ratios.kind = "OneBrightestChannel"

IsTwoBrightest(s) == s.channel_ratios.kind = "TwoBrightestChannels"

IsThreeBrightest(s) == s.channel_ratios.kind = "ThreeBrightestChannels"

\* the number of components of s above 1
OutOfBounds(s) ==
    (IF s.shade[1] > s.shade[2] THEN 1 ELSE 0)
    + (IF s.tint[1] > s.tint[2] THEN 1 ELSE 0)
    + (IF IsOneBrightest(s) /\ HasBlend(s) /\ BlendOf(s)[1] > BlendOf(s)[2]
       THEN 1 ELSE 0)

\* C2: SHT::new reports every violated invariant in one call: the error of
\* each invariant the arguments violate is in the returned list (one
\* ValueOutOfBounds per component above 1), so a one-brightest value with
\* shade = 0 and tint = 1 gets both PrimaryShadeZero and PrimaryTintOne.
C2_AllViolationsReported ==
    op = "new" =>
        LET s == arg
            e == ret.errors
        IN  /\ (IsOneBrightest(s) /\ s.shade[1] = 0) => Has(e, "PrimaryShadeZero")
            /\ (IsOneBrightest(s) /\ s.tint = <<1, 1>>) => Has(e, "PrimaryTintOne")
            /\ (IsOneBrightest(s) /\ HasBlend(s) /\ DirectionOf(s) = s.channel_ratios.primary)
                    => Has(e, "DirectionEqualsPrimary")
            /\ (IsOneBrightest(s) /\ HasBlend(s) /\ BlendOf(s)[1] = 0) => Has(e, "BlendZero")
            /\ (IsOneBrightest(s) /\ HasBlend(s) /\ BlendOf(s) = <<1, 1>>) => Has(e, "BlendOne")
            /\ (IsTwoBrightest(s) /\ s.shade[1] = 0) => Has(e, "SecondaryShadeZero")
            /\ (IsTwoBrightest(s) /\ s.tint = <<1, 1>>) => Has(e, "SecondaryTintOne")
            /\ Count(e, "ValueOutOfBounds") = OutOfBounds(s)

C2_Witness ==
    /\ op = "new"
    /\ IsOneBrightest(arg) /\ arg.shade = <<0, 1>> /\ arg.tint = <<1, 1>>
    /\ ~ret.ok
    /\ Has(ret.errors, "PrimaryShadeZero") /\ Has(ret.errors, "PrimaryTintOne")

\* the normal-form invariants, as the data model states them
InUnit(r) == r[1] <= r[2]

NormalForm(s) ==
    /\ InUnit(s.shade) /\ InUnit(s.tint)
    /\ (IsOneBrightest(s) \/ IsTwoBrightest(s)) => (s.shade[1] # 0 /\ s.tint[1] # s.tint[2])
    /\ (IsOneBrightest(s) /\ HasBlend(s)) =>
            /\ DirectionOf(s) # s.channel_ratios.primary
            /\ 0 < BlendOf(s)[1] /\ BlendOf(s)[1] < BlendOf(s)[2]

\* C3: SHT::new returns Ok, with the three arguments unchanged, exactly when
\* the normal-form invariants hold, and Err in every other case; a
\* ThreeBrightestChannels value is accepted for every shade and tint in [0,1].
C3_OkIffNormalForm ==
    op = "new" =>
        /\ ret.ok <=> NormalForm(arg)
        /\ ret.ok => (ret.value = arg /\ ret.errors = <<>>)
        /\ ~ret.ok => ret.errors # <<>>
        /\ (IsThreeBrightest(arg) /\ InUnit(arg.shade) /\ InUnit(arg.tint)) => ret.ok

C3_Witness ==
    /\ op = "new"
    /\ IsThreeBrightest(arg) /\ arg.shade = <<0, 1>> /\ arg.tint = <<1, 1>>
    /\ ret.ok /\ ret.value = arg

-----------------------------------------------------------------------------
(* Properties of quantity (specification SpecQuantity).                    *)

\* the value of the character at position i of a digit string
DigitAt(input, i) == number_from_digit(<<input[i]>>).value

\* the positions whose contribution digit / 12^i is not representable in T
Unrepresentable(B, input) ==
    {i \in 1..Len(input) : try_shift_fraction(B, 12, DigitAt(input, i), i - 1) = <<>>}

Min(S) == CHOOSE x \in S : \A y \in S : x <= y

\* C4: with k the position of the first digit whose contribution cannot be
\* represented, the digits after position k change neither the result nor the
\* rounding decision: the string decodes to what its first k digits decode to.
C4_LaterDigitsChangeNothing ==
    (op = "quantity" /\ Unrepresentable(Build(arg.bits), arg.input) # {}) =>
        LET k == Min(Unrepresentable(Build(arg.bits), arg.input))
        IN  ret.value = quantity(Build(arg.bits), SubSeq(arg.input, 1, k)).value

AllE(input) == \A i \in 1..Len(input) : input[i] = "E"

\* the number of duodecimal digits whose power 12^n fits the width
DigitsOf(bits) == IF bits = 8 THEN 2 ELSE 4

\* C5: a quantity made only of the digit E that is longer than the width can
\* represent decodes to exactly 1; at 8 bits EEEE decodes to 1 and EE0E to
\* 143/144, at 16 bits EEEE7 decodes to 1 and EEEE5 to 20735/20736.
C5_MaxDigitsCarryToOne ==
    op = "quantity" =>
        /\ (AllE(arg.input) /\ Len(arg.input) > DigitsOf(arg.bits))
                => ret = POk(<<>>, <<1, 1>>)
        /\ (arg.bits = 8 /\ arg.input = <<"E", "E", "E", "E">>)
                => ret.value = <<1, 1>>
        /\ (arg.bits = 8 /\ arg.input = <<"E", "E", "0", "E">>)
                => ret.value = <<143, 144>>
        /\ (arg.bits = 16 /\ arg.input = <<"E", "E", "E", "E", "7">>)
                => ret.value = <<1, 1>>
        /\ (arg.bits = 16 /\ arg.input = <<"E", "E", "E", "E", "5">>)
                => ret.value = <<20735, 20736>>

C5_Witness ==
    /\ op = "quantity"
    /\ arg.bits = 16 /\ arg.input = <<"E", "E", "E", "E", "7">>
    /\ ret.st = "ok" /\ ret.value = <<1, 1>>

-----------------------------------------------------------------------------
(* Properties of round_denominator and the conversions (specifications     *)
(* SpecRound and SpecConv).                                                *)

\* base^exponent does not fit the width
PowUnrepresentable(bits, base, exponent) ==
    bits # 0 /\ base ^ exponent > 2 ^ bits - 1

\* C1: for channels in [0,1] and a precision of at least 1, the triple that
\* rgb_to_sht builds passes SHT::new, so the conversion never panics on an
\* invalid code.
C1_OnlyValidCodes ==
    (op = "rgb_to_sht" /\ arg.precision >= 1) => ret.panic # PanicInvalid

\* C6 as stated: when base^exponent overflows, round_denominator hands back
\* an error value and does not panic.
C6_OverflowIsErrorValue ==
    (op = "round_denominator"
     /\ PowUnrepresentable(arg.bits, arg.base, arg.exponent)) => ret.panic = 0

\* C6: when base^exponent cannot be represented in the integer type,
\* round_denominator panics in every build and returns neither an error value
\* nor a value computed from a wrapped denominator; rgb_to_sht and sht_to_rgb
\* panic likewise at a precision whose 12^P or 16^P cannot be represented.
C6_OverflowPanics ==
    /\ (op = "round_denominator"
        /\ PowUnrepresentable(arg.bits, arg.base, arg.exponent))
            => ret = Panicked(PanicOverflow)
    /\ (op = "rgb_to_sht" /\ PowUnrepresentable(arg.bits, 12, arg.precision))
            => ret = Panicked(PanicOverflow)
    /\ (op = "sht_to_rgb" /\ PowUnrepresentable(arg.bits, 16, arg.precision))
            => (ret.panic # 0 /\ ret.value = <<>>)

C6_Witness ==
    /\ op = "round_denominator" /\ release
    /\ arg.bits = 8 /\ arg.base = 16 /\ arg.exponent = 2
    /\ ret = Panicked(PanicOverflow)

\* C7: at 8 bits, for a ratio in [0,1] and a representable base^exponent,
\* round_denominator either reports a failure or returns the value that exact
\* arithmetic gives; it never returns a wrapped value.
C7_NoWrappedValue ==
    (op = "round_denominator" /\ arg.bits = 8
     /\ ~PowUnrepresentable(arg.bits, arg.base, arg.exponent)) =>
        \/ ret.panic # 0
        \/ ret.value.ratio = round_denominator([bits |-> 0, release |-> release],
                                               arg.value, arg.base, arg.exponent,
                                               arg.offset)

\* C8: for every precision given to sht_to_rgb and rgb_to_sht, 0 included,
\* the rounding denominator base^P - negative_offset is not zero and the
\* conversion does not divide by zero.
C8_DenominatorNeverZero ==
    /\ op = "sht_to_rgb" =>
        /\ ~PowUnrepresentable(arg.bits, 16, arg.precision) => 16 ^ arg.precision - 1 # 0
        /\ ret.panic # PanicDivZero
    /\ op = "rgb_to_sht" =>
        /\ ~PowUnrepresentable(arg.bits, 12, arg.precision) => 12 ^ arg.precision - 0 # 0
        /\ ret.panic # PanicDivZero

-----------------------------------------------------------------------------
(* Properties of parse_sht (specification SpecParse).                      *)

Suffixes(input) == {SubSeq(input, n + 1, Len(input)) : n \in 1..Len(input) - 1}

\* C9: InputRemaining carries exactly the suffix the grammar left unconsumed,
\* a nonempty proper suffix of the input whose prefix the grammar accepts in
\* full (rr leaves r, r0 leaves 0, WW leaves W); ParseFailure carries the
\* whole input, as for the empty string and for "...".
C9_ErrorsCarryText ==
    op = "parse_sht" =>
        /\ ret.kind = "InputRemaining" =>
            /\ ret.text \in Suffixes(arg.input)
            /\ sht_data(Build(arg.bits),
                        SubSeq(arg.input, 1, Len(arg.input) - Len(ret.text))).rest = <<>>
        /\ ret.kind = "ParseFailure" => ret.text = arg.input
        /\ arg.input = <<"r", "r">> => ret = InputRemaining(<<"r">>)
        /\ arg.input = <<"r", "0">> => ret = InputRemaining(<<"0">>)
        /\ arg.input = <<"W", "W">> => ret = InputRemaining(<<"W">>)
        /\ arg.input = <<>> => ret = ParseFailure(<<>>)
        /\ arg.input = <<".", ".", ".">> => ret = ParseFailure(<<".", ".", ".">>)

C9_Witness ==
    /\ op = "parse_sht"
    /\ arg.input = <<"r", "6", "g", "W">>
    /\ ret = InputRemaining(<<"W">>)

\* the shade and tint that parse_sht gives SHT::new: 1 and 0 when absent
Shade(parts) == IF parts.shade = <<>> THEN <<1, 1>> ELSE parts.shade[1]

Tint(parts) == IF parts.tint = <<>> THEN <<0, 1>> ELSE parts.tint[1]

\* C10: when the grammar consumes all input, parse_sht returns what SHT::new
\* returns for the parsed parts, an absent shade being 1 and an absent tint
\* 0: 0r gives [PrimaryShadeZero], r1r [DirectionEqualsPrimary], r0g
\* [BlendZero]; a value it returns is in normal form; it never panics.
C10_ParseReturnsWhatNewReturns ==
    op = "parse_sht" =>
        LET data == sht_data(Build(arg.bits), arg.input)
        IN  /\ ret.kind # "Panic"
            /\ (data.st = "ok" /\ data.rest = <<>>) =>
                LET made == SHT_new(data.value.channel_ratios,
                                    Shade(data.value), Tint(data.value))
                IN  /\ made.ok => ret = ParseOk(made.value)
                    /\ ~made.ok => ret = ValueErrors(made.errors)
            /\ ret.kind = "Ok" => NormalForm(ret.value)
            /\ arg.input = <<"r">> =>
                ret = ParseOk(SHT(OneBrightestChannel("Red", NoDirection),
                                  <<1, 1>>, <<0, 1>>))
            /\ arg.input = <<"0", "r">> => ret = ValueErrors(<<"PrimaryShadeZero">>)
            /\ arg.input = <<"r", "1", "r">>
                    => ret = ValueErrors(<<"DirectionEqualsPrimary">>)
            /\ arg.input = <<"r", "0", "g">> => ret = ValueErrors(<<"BlendZero">>)

C10_Witness ==
    /\ op = "parse_sht"
    /\ arg.input = <<"r", "0", "g">>
    /\ ret = ValueErrors(<<"BlendZero">>)

UpperDigits(input) == [i \in 1..Len(input) |-> IF input[i] = "e" THEN "E" ELSE input[i]]

\* C12: the parser reads the digit E case-insensitively: a text with e for E
\* parses to the value the text with E parses to.
C12_CaseInsensitiveDigits ==
    op = "parse_sht" =>
        LET upper == parse_sht(Build(arg.bits), UpperDigits(arg.input))
        IN  upper.kind = "Ok" => ret = upper

\* the characters of a text are all digits that number_from_digit reads
DigitsOnly(input) ==
    input # <<>> /\ \A i \in 1..Len(input) : number_from_digit(<<input[i]>>).st = "ok"

\* C13: a digits-only text parses to ThreeBrightestChannels, with shade 0 and
\* tint 0 when its quantity is exactly 0 (0) and with the default shade 1 and
\* the quantity as tint otherwise (6); an absent shade is 1, an absent tint 0.
C13_DigitsOnly ==
    op = "parse_sht" =>
        /\ DigitsOnly(arg.input) =>
            LET q == quantity(Build(arg.bits), arg.input).value
            IN  ret = ParseOk(SHT(ThreeBrightestChannels,
                                  IF q = <<0, 1>> THEN <<0, 1>> ELSE <<1, 1>>, q))
        /\ arg.input = <<"0">> => ret = ParseOk(SHT(ThreeBrightestChannels, <<0, 1>>, <<0, 1>>))
        /\ arg.input = <<"6">> => ret = ParseOk(SHT(ThreeBrightestChannels, <<1, 1>>, <<1, 2>>))
        /\ arg.input = <<"0", "6">>
                => ret = ParseOk(SHT(ThreeBrightestChannels, <<1, 1>>, <<1, 24>>))
        /\ arg.input = <<"6", "r">> =>
            ret = ParseOk(SHT(OneBrightestChannel("Red", NoDirection), <<1, 2>>, <<0, 1>>))
        /\ arg.input = <<"r", "6">> =>
            ret = ParseOk(SHT(OneBrightestChannel("Red", NoDirection), <<1, 1>>, <<1, 2>>))

C13_Witness ==
    /\ op = "parse_sht" /\ arg.input = <<"0", "6">>
    /\ ret.kind = "Ok" /\ IsThreeBrightest(ret.value)
    /\ ret.value.shade = <<1, 1>> /\ ret.value.tint = <<1, 24>>

-----------------------------------------------------------------------------
(* The duodecimal formatter.                                               *)

\* C14: at precision 0 duodecimal returns "0" for every value of [0,1) and
\* "W" for every value of at least 1.
C14_PrecisionZero ==
    (op = "duodecimal" /\ arg.precision = 0) =>
        ret = Returned(IF RCmp(arg.value, One) >= 0 THEN <<"W">> ELSE <<"0">>)

\* the number a digit character stands for
DigitValue(c) == CHOOSE d \in 0..11 : digit_characters[d + 1] = c

\* the digits of a text read as a whole number in base 12
RECURSIVE TextNumber(_)
TextNumber(text) ==
    IF text = <<>> THEN 0
    ELSE 12 * TextNumber(SubSeq(text, 1, Len(text) - 1)) + DigitValue(text[Len(text)])

\* a formatted text read as a fraction in base 12; "W" is one
TextValue(text) ==
    IF text = <<"W">> THEN One ELSE RatioNew(TextNumber(text), 12 ^ Len(text))

\* floor(v * 12^P + 1/2) / 12^P
Nearest(v, P) == RatioNew((2 * v[1] * 12 ^ P + v[2]) \div (2 * v[2]), 12 ^ P)

C16_DigitRoundTrip ==
    \A d \in 0..11 :
        /\ (op = "duodecimal" /\ arg.precision = 1 /\ arg.value = RatioNew(d, 12)) =>
               /\ ret = Returned(<<digit_characters[d + 1]>>)
               /\ quantity(Build(arg.bits), ret.value) = POk(<<>>, arg.value)
        /\ (op = "quantity" /\ arg.input = <<digit_characters[d + 1]>>) =>
               /\ ret = POk(<<>>, RatioNew(d, 12))
               /\ duodecimal(Build(arg.bits), ret.value, 1) = Returned(arg.input)

\* ten twelfths has been formatted as X
C16_Witness ==
    /\ op = "duodecimal"
    /\ arg.precision = 1
    /\ arg.value = RatioNew(10, 12)
    /\ ret = Returned(<<"X">>)

-----------------------------------------------------------------------------
(* The conversions between RGB and SHT.                                    *)

\* a colour #rrggbb: its channels over 255
Hex(r, g, b) == RGB(RatioNew(r, 255), RatioNew(g, 255), RatioNew(b, 255))

\* the colours of the tests rgb_to_sht and sht_to_rgb that the claim names
ExampleColours ==
    << <<<<"r">>, Hex(255, 0, 0)>>,
       <<<<"8", "r">>, Hex(170, 0, 0)>>,
       <<<<"r", "6", "g">>, Hex(255, 128, 0)>>,
       <<<<"8", "y", "3">>, Hex(191, 191, 64)>>,
       <<<<"6">>, Hex(128, 128, 128)>>,
       <<<<"0">>, Hex(0, 0, 0)>>,
       <<<<"W">>, Hex(255, 255, 255)>> >>

\* C17: at precision 2 sht_to_rgb maps r, 8r, r6g, 8y3, 6, 0, W to #ff0000,
\* #aa0000, #ff8000, #bfbf40, #808080, #000000, #ffffff, and rgb_to_sht maps
\* each of these colours back to the SHT parsed from the text.  T is u16 or
\* wider, which holds 16^2.
C17_ExampleColours ==
    (op \in {"sht_to_rgb", "rgb_to_sht"} /\ arg.bits # 8 /\ arg.precision = 2) =>
        \A i \in 1..Len(ExampleColours) :
            LET parsed == parse_sht(Build(arg.bits), ExampleColours[i][1])
                hex == ExampleColours[i][2]
            IN  /\ parsed.kind = "Ok"
                /\ (op = "sht_to_rgb" /\ arg.input = parsed.value) => ret = Returned(hex)
                /\ (op = "rgb_to_sht" /\ arg.input = hex) => ret = Returned(parsed.value)

\* #bfbf40 has been converted to 8y3 at precision 2
C17_Witness ==
    /\ op = "rgb_to_sht"
    /\ arg.precision = 2
    /\ arg.input = Hex(191, 191, 64)
    /\ ret = Returned(SHT(TwoBrightestChannels("Yellow"), <<2, 3>>, <<1, 4>>))

\* exact arithmetic, for the values the claims speak of
Exact == [bits |-> 0, release |-> FALSE]

\* tint + shade * (1 - tint), exactly
ExactMax(x) == RAdd(Exact, x.tint, RMul(Exact, x.shade, RSub(Exact, One, x.tint)))

\* the channel values that sht_to_rgb reconstructs from x, before rounding
ExactChannels(x) ==
    IF IsThreeBrightest(x) THEN {x.tint}
    ELSE IF IsOneBrightest(x) /\ HasBlend(x)
    THEN {x.tint, ExactMax(x),
          RAdd(Exact, x.tint, RMul(Exact, BlendOf(x), RSub(Exact, ExactMax(x), x.tint)))}
    ELSE {x.tint, ExactMax(x)}

\* the ratio is a multiple of 1/denominator
MultipleOf(ratio, denominator) == denominator % ratio[2] = 0

\* no rounding step changes anything at precision P
NoInformationLost(x, P) ==
    /\ P >= 1
    /\ \A c \in ExactChannels(x) : MultipleOf(c, 16 ^ P - 1)
    /\ MultipleOf(x.shade, 12 ^ P) /\ MultipleOf(x.tint, 12 ^ P)
    /\ HasBlend(x) => MultipleOf(BlendOf(x), 12 ^ P)

\* C18: rgb_to_sht(sht_to_rgb(x, P), P) = x for every valid SHT x and every
\* precision P at which no information is lost: the channels reconstructed
\* from x are multiples of 1/(16^P - 1) and its shade, tint and blend are
\* multiples of 1/12^P.
C18_RoundTrip ==
    (op = "sht_to_rgb" /\ ret.panic = 0 /\ NoInformationLost(arg.input, arg.precision)) =>
        rgb_to_sht(Build(arg.bits), ret.value, arg.precision) = Returned(arg.input)

\* the channels of an RGB value by name
ChannelOf(rgb, name) ==
    CASE name = "Red" -> rgb.r [] name = "Green" -> rgb.g [] name = "Blue" -> rgb.b

\* the largest and the smallest channel value
MaxChannel(rgb) ==
    CHOOSE v \in {rgb.r, rgb.g, rgb.b} : \A w \in {rgb.r, rgb.g, rgb.b} : RCmp(v, w) >= 0

MinChannel(rgb) ==
    CHOOSE v \in {rgb.r, rgb.g, rgb.b} : \A w \in {rgb.r, rgb.g, rgb.b} : RCmp(v, w) <= 0

\* the names of the channels that hold the largest value
Brightest(rgb) == {n \in ColourChannel : ChannelOf(rgb, n) = MaxChannel(rgb)}

\* the names of the channels strictly between the smallest and the largest
Between(rgb) ==
    {n \in ColourChannel : /\ RLess(MinChannel(rgb), ChannelOf(rgb, n))
                           /\ RLess(ChannelOf(rgb, n), MaxChannel(rgb))}

\* Cyan = green + blue, Yellow = red + green, Magenta = red + blue
SecondaryOf(names) ==
    CASE names = {"Green", "Blue"} -> "Cyan"
      [] names = {"Red", "Green"} -> "Yellow"
      [] names = {"Red", "Blue"} -> "Magenta"

\* a ratio of [0,1] rounded to P duodecimal digits: floor(v * 12^P + 1/2) / 12^P
Rounded12(v, P) == RatioNew((2 * v[1] * 12 ^ P + v[2]) \div (2 * v[2]), 12 ^ P)

\* C19: rgb_to_sht answers OneBrightestChannel, with the channel of max as
\* primary, exactly when max > mid, the direction_blend being the channel of
\* mid with (mid - min)/(max - min) rounded by round_denominator (to the
\* nearest multiple of 1/12^P when nothing wraps) when mid > min and None when
\* mid = min; TwoBrightestChannels, the secondary naming the two tied top
\* channels, exactly when max = mid > min; ThreeBrightestChannels exactly
\* when the three channels are equal.
C19_Classification ==
    /\ op = "rgb_to_sht" =>
        LET variant == rgb_to_sht_parts(Build(arg.bits), arg.input,
                                        arg.precision).channel_ratios
            top == Brightest(arg.input)
        IN  /\ variant.kind = "OneBrightestChannel" <=> Cardinality(top) = 1
            /\ variant.kind = "TwoBrightestChannels" <=> Cardinality(top) = 2
            /\ variant.kind = "ThreeBrightestChannels" <=> Cardinality(top) = 3
    /\ (op = "rgb_to_sht" /\ ret.panic = 0) =>
        LET rgb == arg.input
            max == MaxChannel(rgb)
            min == MinChannel(rgb)
            top == Brightest(rgb)
            between == Between(rgb)
            variant == ret.value.channel_ratios
        IN  /\ Cardinality(top) = 1 <=> IsOneBrightest(ret.value)
            /\ Cardinality(top) = 2 <=> IsTwoBrightest(ret.value)
            /\ Cardinality(top) = 3 <=> IsThreeBrightest(ret.value)
            /\ Cardinality(top) = 1 =>
                   /\ variant.primary \in top
                   /\ between = {} <=> variant.direction_blend = NoDirection
                   /\ between # {} =>
                          /\ DirectionOf(ret.value) \in between
                          /\ BlendOf(ret.value) =
                                 round_denominator(
                                     Build(arg.bits),
                                     RDiv(Exact,
                                          RSub(Exact, ChannelOf(rgb, DirectionOf(ret.value)), min),
                                          RSub(Exact, max, min)),
                                     12, arg.precision, 0)
                          /\ (arg.bits = 0 \/ ~release) =>
                                 BlendOf(ret.value) =
                                     Rounded12(RDiv(Exact,
                                                    RSub(Exact, ChannelOf(rgb, DirectionOf(ret.value)), min),
                                                    RSub(Exact, max, min)),
                                               arg.precision)
            /\ Cardinality(top) = 2 => variant.secondary = SecondaryOf(top)

\* #ff8000 has been classified: red brightest, half way towards green
C19_Witness ==
    /\ op = "rgb_to_sht"
    /\ arg.input = Hex(255, 128, 0)
    /\ arg.precision = 1
    /\ ret = Returned(SHT(OneBrightestChannel("Red", <<"Green", <<1, 2>>>>), One, Zero))

\* C20: rgb_to_sht computes the tint as the minimum channel rounded to P
\* duodecimal digits and the shade as 0 when the maximum channel is 0, as 1
\* when minimum = maximum (not 0), and otherwise as (max - min)/(1 - min)
\* rounded to P duodecimal digits (by round_denominator, to the nearest
\* multiple of 1/12^P when nothing wraps); 1 - min is evaluated only when
\* min < 1, so this division is never by zero.
C20_ShadeAndTint ==
    op = "rgb_to_sht" =>
        LET max == MaxChannel(arg.input)
            min == MinChannel(arg.input)
            exact == arg.bits = 0 \/ ~release
            scaled == RDiv(Exact, RSub(Exact, max, min), RSub(Exact, One, min))
        IN  /\ ret.panic # PanicDivZero
            /\ min # max => RLess(min, One)
            /\ ret.panic = 0 =>
                   /\ ret.value.tint = round_denominator(Build(arg.bits), min, 12,
                                                         arg.precision, 0)
                   /\ exact => ret.value.tint = Rounded12(min, arg.precision)
                   /\ is_zero(max) => ret.value.shade = Zero
                   /\ (~is_zero(max) /\ min = max) => ret.value.shade = One
                   /\ min # max =>
                          /\ ret.value.shade = round_denominator(Build(arg.bits), scaled, 12,
                                                                 arg.precision, 0)
                          /\ exact => ret.value.shade = Rounded12(scaled, arg.precision)

\* #bfbf40 has been converted at precision 1: shade 8/12, tint 3/12
C20_Witness ==
    /\ op = "rgb_to_sht"
    /\ arg.input = Hex(191, 191, 64)
    /\ arg.precision = 1
    /\ ret.panic = 0
    /\ ret.value.shade = <<2, 3>>
    /\ ret.value.tint = <<1, 4>>

\* the channels that a secondary colour names
SecondaryMembers(secondary) ==
    CHOOSE names \in SUBSET ColourChannel :
        Cardinality(names) = 2 /\ SecondaryOf(names) = secondary

\* the value of a channel of x before rounding, in exact arithmetic
ExactChannel(x, name) ==
    IF IsThreeBrightest(x) THEN x.tint
    ELSE IF IsTwoBrightest(x)
    THEN (IF name \in SecondaryMembers(x.channel_ratios.secondary)
          THEN ExactMax(x) ELSE x.tint)
    ELSE IF name = x.channel_ratios.primary THEN ExactMax(x)
    ELSE IF HasBlend(x) /\ name = DirectionOf(x)
    THEN RAdd(Exact, x.tint, RMul(Exact, BlendOf(x), RSub(Exact, ExactMax(x), x.tint)))
    ELSE x.tint

\* floor(v * D + 1/2) / D for D = 16^P - 1
Rounded16(v, P) ==
    RatioNew((2 * v[1] * (16 ^ P - 1) + v[2]) \div (2 * v[2]), 16 ^ P - 1)

\* C21: sht_to_rgb reconstructs the channels from min = tint and
\* max = tint + shade * (1 - tint): all three are min for
\* ThreeBrightestChannels; the two channels of the secondary are max and the
\* third is min for TwoBrightestChannels; for OneBrightestChannel the primary
\* is max, the direction (when present) is min + blend * (max - min), the
\* others are min; each channel is then rounded by round_denominator(_, 16,
\* P, 1), to the nearest multiple of 1/(16^P - 1) when nothing wraps.
C21_Reconstruction ==
    (op = "sht_to_rgb" /\ ret.panic = 0) =>
        \A name \in ColourChannel :
            /\ ChannelOf(ret.value, name) =
                   round_denominator(Build(arg.bits), ExactChannel(arg.input, name), 16,
                                     arg.precision, 1)
            /\ (arg.bits = 0 \/ ~release) =>
                   ChannelOf(ret.value, name) =
                       Rounded16(ExactChannel(arg.input, name), arg.precision)

\* 8r6g3 has been converted at precision 2: #bf8040
C21_Witness ==
    /\ op = "sht_to_rgb"
    /\ arg.precision = 2
    /\ arg.input = SHT(OneBrightestChannel("Red", <<"Green", <<1, 2>>>>), <<2, 3>>, <<1, 4>>)
    /\ ret = Returned(Hex(191, 128, 64))

-----------------------------------------------------------------------------
(* round_denominator as a function.                                        *)

\* floor(v * D + 1/2) / D
RoundHalfUp(v, D) == RatioNew((2 * v[1] * D + v[2]) \div (2 * v[2]), D)

\* the call overflows nowhere and divides by no zero: a debug build returns
Representable(a) ==
    IsRatio(round_denominator([bits |-> a.bits, release |-> FALSE], a.value, a.base,
                              a.exponent, a.offset))

\* C22: round_denominator(value, base, exponent, offset) returns
\* floor(value * D + 1/2) / D with D = base^exponent - offset, whenever the
\* computation fits the integer type; with exponent 0 and offset 0 it returns
\* 0 for value < 1/2 and 1 for value >= 1/2, and it maps 0 to 0 and 1 to 1.
C22_RoundHalfUp ==
    (op = "round_denominator" /\ Representable(arg)) =>
        /\ ret = Returned([ratio |-> RoundHalfUp(arg.value,
                                                 arg.base ^ arg.exponent - arg.offset)])
        /\ (arg.exponent = 0 /\ arg.offset = 0) =>
               ret.value.ratio = IF RLess(arg.value, RatioNew(1, 2)) THEN Zero ELSE One
        /\ arg.value = Zero => ret.value.ratio = Zero
        /\ arg.value = One => ret.value.ratio = One

\* two thirds has been rounded to quarters: 3/4
C22_Witness ==
    /\ op = "round_denominator"
    /\ arg = [bits |-> 8, value |-> <<2, 3>>, base |-> 2, exponent |-> 2, offset |-> 0]
    /\ ret = Returned([ratio |-> <<3, 4>>])

-----------------------------------------------------------------------------
(* The parser, continued.                                                  *)

\* C23: appending a zero digit to a quantity does not change the parsed
\* value, at any integer width: quantity(q followed by 0) = quantity(q).
C23_TrailingZero ==
    (op = "quantity" /\ Len(arg.input) >= 2 /\ arg.input[Len(arg.input)] = "0") =>
        ret = quantity(Build(arg.bits), SubSeq(arg.input, 1, Len(arg.input) - 1))

-----------------------------------------------------------------------------
(* Display.                                                                *)

\* the digits written in the canonical texts: 0, 3/12, 6/12, 8/12
CanonicalDigits == {"0", "3", "6", "8"}

\* nothing, or one digit
DigitOption == {<<>>} \cup {<<d>> : d \in CanonicalDigits}

\* lowercase channel letters, with at most one digit per quantity
CanonicalChannels ==
    {<<p>> : p \in {"r", "g", "b"}}
    \cup {<<p, d, q>> : p \in {"r", "g", "b"}, d \in CanonicalDigits, q \in {"r", "g", "b"}}
    \cup {<<c>> : c \in {"c", "y", "m"}}

\* the SHT texts in canonical form: [digit] channel [digit], one digit, or W
CanonicalTexts ==
    {shade \o channel \o tint :
        shade \in DigitOption, channel \in CanonicalChannels, tint \in DigitOption}
    \cup {<<d>> : d \in CanonicalDigits} \cup {<<"W">>}

\* the canonical texts that parse, each with the SHT<u8> it parses to
CanonicalParsed ==
    {pair \in {<<t, parse_sht([bits |-> 8, release |-> FALSE], t)>> : t \in CanonicalTexts} :
        pair[2].kind = "Ok"}

\* the letters of the primary and secondary colours
ColourLetters == {"r", "g", "b", "c", "y", "m"}

\* C24: Display at precision 1 and at the default precision returns exactly
\* the canonical text (lowercase channel letters, one uppercase digit per
\* quantity, or 0 or W) that the colour was parsed from; a shade equal to 1
\* and a tint equal to 0 are omitted from the output.
C24_DisplayReproducesText ==
    (op = "fmt" /\ arg.precision \in {<<>>, <<1>>}) =>
        /\ \A pair \in CanonicalParsed :
               arg.self = pair[2].value => ret = Returned(pair[1])
        /\ (ret.panic = 0 /\ ~IsThreeBrightest(arg.self)) =>
               /\ is_one(arg.self.shade) => ret.value[1] \in ColourLetters
               /\ is_zero(arg.self.tint) => ret.value[Len(ret.value)] \in ColourLetters

\* 8r6g3 has been formatted at precision 1
C24_Witness ==
    /\ op = "fmt"
    /\ arg.precision = <<1>>
    /\ arg.self = SHT(OneBrightestChannel("Red", <<"Green", <<1, 2>>>>), <<2, 3>>, <<1, 4>>)
    /\ ret = Returned(<<"8", "r", "6", "g", "3">>)

-----------------------------------------------------------------------------
(* The digits after a primary letter.                                      *)

PrimaryLetters == {"r", "g", "b"}

\* the text is a run of uppercase duodecimal digits, possibly empty
IsDigitRun(text) ==
    \A i \in 1..Len(text) : \E d \in 1..12 : digit_characters[d] = text[i]

\* the position of the first primary letter of the text, 0 when there is none
FirstPrimary(text) ==
    IF \E i \in 1..Len(text) : text[i] \in PrimaryLetters
    THEN CHOOSE i \in 1..Len(text) :
             /\ text[i] \in PrimaryLetters
             /\ \A j \in 1..(i - 1) : text[j] \notin PrimaryLetters
    ELSE 0

\* the last position of the digit run that starts at position from
DigitRunEnd(text, from) ==
    CHOOSE j \in (from - 1)..Len(text) :
        /\ IsDigitRun(SubSeq(text, from, j))
        /\ j < Len(text) => ~IsDigitRun(<<text[j + 1]>>)

\* C25: after a primary letter a digit run that is followed by a primary
\* letter is read as blend and direction, and a digit run that is not
\* followed by a primary letter is read as the tint: r6g has blend 1/2
\* towards green and tint 0, r6 has no direction and tint 1/2, r6g3 has both.
C25_GreedyDigits ==
    op = "parse_sht" =>
        /\ arg.input = <<"r", "6", "g">> =>
               ret = ParseOk(SHT(OneBrightestChannel("Red", <<"Green", <<1, 2>>>>), One, Zero))
        /\ arg.input = <<"r", "6">> =>
               ret = ParseOk(SHT(OneBrightestChannel("Red", NoDirection), One, <<1, 2>>))
        /\ arg.input = <<"r", "6", "g", "3">> =>
               ret = ParseOk(SHT(OneBrightestChannel("Red", <<"Green", <<1, 2>>>>), One,
                                 <<1, 4>>))
        /\ (ret.kind = "Ok" /\ FirstPrimary(arg.input) # 0) =>
               LET first == FirstPrimary(arg.input)
                   last == DigitRunEnd(arg.input, first + 1)
                   run == SubSeq(arg.input, first + 1, last)
                   rest == SubSeq(arg.input, last + 1, Len(arg.input))
                   value(text) == quantity(Build(arg.bits), text).value
               IN  /\ run = <<>> => (rest = <<>> /\ ~HasBlend(ret.value)
                                     /\ ret.value.tint = Zero)
                   /\ (run # <<>> /\ rest = <<>>) =>
                          (~HasBlend(ret.value) /\ ret.value.tint = value(run))
                   /\ (run # <<>> /\ rest # <<>>) =>
                          /\ rest[1] \in PrimaryLetters
                          /\ HasBlend(ret.value)
                          /\ primary_to_str(DirectionOf(ret.value)) = <<rest[1]>>
                          /\ BlendOf(ret.value) = value(run)
                          /\ ret.value.tint =
                                 IF Len(rest) = 1 THEN Zero ELSE value(Tail(rest))

\* r6g3 has been parsed
C25_Witness ==
    /\ op = "parse_sht"
    /\ arg.input = <<"r", "6", "g", "3">>
    /\ ret.kind = "Ok"
    /\ HasBlend(ret.value)
    /\ ret.value.tint = <<1, 4>>

-----------------------------------------------------------------------------
(* The canonical form.                                                     *)

\* the colour that x denotes: its channels before rounding, exactly
ExactTriple(x) ==
    <<ExactChannel(x, "Red"), ExactChannel(x, "Green"), ExactChannel(x, "Blue")>>

\* every value that SHT::new accepts, over the ratios given to it
AcceptedShts ==
    {x \in {SHT(cr, shade, tint) :
                cr \in AllChannelRatios, shade \in ArgRatios, tint \in ArgRatios} :
         SHT_new(x.channel_ratios, x.shade, x.tint).ok}

\* the colours of the accepted values
AcceptedColours == {<<x, ExactTriple(x)>> : x \in AcceptedShts}

\* C26: two distinct SHT values that both pass SHT::new never denote the same
\* colour: the channel triples that sht_to_rgb computes before rounding
\* differ.
C26_UniqueCanonicalForm ==
    (op = "new" /\ ret.ok) =>
        \A other \in AcceptedColours :
            other[1] # ret.value => other[2] # ExactTriple(ret.value)

-----------------------------------------------------------------------------
(* The digit-rounding helper.                                              *)

\* the number of digits kept when rounding up: all digits after them are 11
\* or more, and the last one kept is below 11
Kept(digits) ==
    CHOOSE k \in 0..Len(digits) :
        /\ k > 0 => digits[k] < 11
        /\ \A j \in (k + 1)..Len(digits) : digits[j] >= 11

\* C27: round(digits, up) returns digits unchanged when up is false; when up
\* is true it drops every trailing digit that is 11 or more, adds one to the
\* last remaining digit, and returns the single digit 12 when none remains:
\* [1,11,11,11,11] gives [2], [11,11,11,11] gives [12], [1,0,0,0] gives
\* [1,0,0,1].
C27_RoundDigits ==
    op = "round" =>
        /\ ~arg.round_up => ret = Returned(arg.input)
        /\ arg.round_up =>
               LET k == Kept(arg.input)
               IN  ret = Returned(IF k = 0 THEN <<12>>
                                  ELSE Append(SubSeq(arg.input, 1, k - 1), arg.input[k] + 1))
        /\ arg.round_up =>
               /\ arg.input = <<1, 11, 11, 11, 11>> => ret.value = <<2>>
               /\ arg.input = <<11, 11, 11, 11>> => ret.value = <<12>>
               /\ arg.input = <<1, 0, 0, 0>> => ret.value = <<1, 0, 0, 1>>

\* [1,11,11,11,11] has been rounded up to [2]
C27_Witness ==
    /\ op = "round"
    /\ arg.round_up
    /\ arg.input = <<1, 11, 11, 11, 11>>
    /\ ret = Returned(<<2>>)

-----------------------------------------------------------------------------
(* Display and the parser.                                                 *)

\* the precision that fmt uses
PrecisionOf(option) == IF option = <<>> THEN 2 ELSE option[1]

\* shade, tint and blend of x are multiples of 1/12^P
WholeDigits(x, P) ==
    /\ MultipleOf(x.shade, 12 ^ P) /\ MultipleOf(x.tint, 12 ^ P)
    /\ HasBlend(x) => MultipleOf(BlendOf(x), 12 ^ P)

\* C28: every string that Display produces for a value accepted by SHT::new,
\* at a precision P >= 1, is valid SHT text: parse_sht of it returns Ok; and
\* when shade, tint and blend are multiples of 1/12^P the parsed value is the
\* original.
C28_DisplayParses ==
    (op = "fmt" /\ PrecisionOf(arg.precision) >= 1 /\ ret.panic = 0) =>
        LET parsed == parse_sht(Build(arg.bits), ret.value)
        IN  /\ parsed.kind = "Ok"
            /\ WholeDigits(arg.self, PrecisionOf(arg.precision)) =>
                   parsed = ParseOk(arg.self)

-----------------------------------------------------------------------------
(* The symmetry of rgb_to_sht.                                             *)

\* the renamings of the channels
Renamings ==
    {pi \in [ColourChannel -> ColourChannel] : {pi[n] : n \in ColourChannel} = ColourChannel}

\* the RGB value whose channel pi[n] holds what channel n held
RenameRgb(rgb, pi) ==
    LET from(name) == CHOOSE n \in ColourChannel : pi[n] = name
    IN  RGB(ChannelOf(rgb, from("Red")), ChannelOf(rgb, from("Green")),
            ChannelOf(rgb, from("Blue")))

\* the SHT with its channel names renamed; shade, tint and blend are kept
RenameSht(x, pi) ==
    LET cr == x.channel_ratios
    IN  SHT(IF cr.kind = "OneBrightestChannel"
            THEN OneBrightestChannel(
                     pi[cr.primary],
                     IF cr.direction_blend = NoDirection THEN NoDirection
                     ELSE <<pi[cr.direction_blend[1]], cr.direction_blend[2]>>)
            ELSE IF cr.kind = "TwoBrightestChannels"
            THEN TwoBrightestChannels(
                     SecondaryOf({pi[n] : n \in SecondaryMembers(cr.secondary)}))
            ELSE ThreeBrightestChannels,
            x.shade, x.tint)

\* C29: permuting the red, green and blue values of the input of rgb_to_sht
\* permutes the channel names of the result in the same way and leaves shade,
\* tint and blend unchanged, also when two or three channels are tied.
C29_ChannelSymmetry ==
    op = "rgb_to_sht" =>
        \A pi \in Renamings :
            LET renamed == rgb_to_sht(Build(arg.bits), RenameRgb(arg.input, pi), arg.precision)
            IN  IF ret.panic # 0 THEN renamed = ret
                ELSE renamed = Returned(RenameSht(ret.value, pi))

\* a colour whose two top channels are tied has been converted
C29_Witness ==
    /\ op = "rgb_to_sht"
    /\ arg.input = Hex(64, 191, 191)
    /\ arg.precision = 1
    /\ ret.panic = 0
    /\ ret.value.channel_ratios = TwoBrightestChannels("Cyan")

-----------------------------------------------------------------------------
(* quantity never aborts.                                                  *)

\* C30: for every non-empty duodecimal digit string, up to and beyond 255
\* digits, at u8 and u16, quantity returns without a panic (length - 1 does
\* not underflow, the final addition does not overflow) and its result r
\* satisfies 0 <= r <= 1.
C30_QuantityInUnit ==
    (op = "quantity" /\ IsDigitRun(arg.input) /\ arg.input # <<>>) =>
        /\ ret.st = "ok"
        /\ ret.rest = <<>>
        /\ IsRatio(ret.value)
        /\ ret.value[1] >= 0
        /\ ret.value[1] <= ret.value[2]

\* 255 zeros and a 6 have been decoded
C30_Witness ==
    /\ op = "quantity"
    /\ Len(arg.input) = MaxIndex + 1
    /\ arg.input[MaxIndex + 1] = "6"
    /\ ret.st = "ok"

====
